---- MODULE Spec2Model ----
(***************************************************************************)
(* State-machine model of the ENS160 gas-sensor driver (src/ens160.py) and *)
(* the AHT21 humidity/temperature driver (src/aht21.py).                   *)
(*                                                                         *)
(* One step of a driver is one register-helper invocation (or one raw bus  *)
(* transaction for the AHT21) together with the straight-line code that    *)
(* follows it up to the next bus access.  The I2C bus and the sensors are  *)
(* the environment: they decide whether a transaction fails and which      *)
(* bytes a read delivers.                                                  *)
(***************************************************************************)
EXTENDS Integers, Sequences, FiniteSets, TLC

VARIABLES
    inst,            \* "none" | "ready": whether an ENS160 instance exists
    stack,           \* call stack of the ENS160 context: frames [fn, pc, arg]
    _aqi,            \* ENS160._aqi
    _tvoc,           \* ENS160._tvoc
    _eco2,           \* ENS160._eco2
    _validity_flag,  \* ENS160._validity_flag
    regs,            \* device registers as last written over the bus
    call,            \* the public operation in progress or just ended
    log,             \* helper invocations and sleeps of that operation
    helper,          \* bus transactions of the latest helper invocation
    result,          \* how that operation ended
    entry,           \* cached reading and registers when it began
    aht,             \* "none" | "ready": whether an AHT21 instance exists
    apc,             \* position of the AHT21 context inside its operation
    acall,           \* the AHT21 operation in progress or just ended
    attempt,         \* the loop variable `attempt`
    elapsed,         \* ms on the tick counter since start_time was taken
    polls,           \* status polls of the current attempt
    busy,            \* how many of them read the busy flag set
    alog,            \* bus transactions and sleeps of the AHT21 operation
    aresult,         \* how that operation ended
    locking,         \* whether the callers wrap their operations in sensor_lock
    sensor_lock,     \* the context holding sensor_lock, 0 when it is free
    cpc,             \* position of each of the two contexts sharing the ENS160
    cdata,           \* each context's local `data` of update()
    creading,        \* the reading each context has collected from the properties
    nbursts,         \* burst reads the device has answered so far
    fname,           \* the pure function applied on its own, "none" between calls
    fargs,           \* its argument
    fvalue           \* the value it returned

ensVars == <<inst, stack, _aqi, _tvoc, _eco2, _validity_flag, regs, call, log,
             helper, result, entry>>
ahtVars == <<aht, apc, acall, attempt, elapsed, polls, busy, alog, aresult>>
conVars == <<locking, sensor_lock, cpc, cdata, creading, nbursts>>
funVars == <<fname, fargs, fvalue>>
vars == <<ensVars, ahtVars, conVars, funVars>>

-----------------------------------------------------------------------------
(* Bounds of the model.                                                    *)

\* Deepest nesting of update() inside update() the device is allowed to cause.
MaxDepth == 3

\* Burst reads the device answers with new data while two contexts share it.
MaxBursts == 2

-----------------------------------------------------------------------------
(* Integer bit operations as Python computes them on non-negative ints.    *)

RECURSIVE BitAnd(_, _)
BitAnd(a, b) ==
    IF a = 0 \/ b = 0 THEN 0
    ELSE (a % 2) * (b % 2) + 2 * BitAnd(a \div 2, b \div 2)

RECURSIVE BitXor(_, _)
BitXor(a, b) ==
    IF a = 0 THEN b
    ELSE IF b = 0 THEN a
    ELSE ((a + b) % 2) + 2 * BitXor(a \div 2, b \div 2)

RECURSIVE BitOr(_, _)
BitOr(a, b) ==
    IF a = 0 THEN b
    ELSE IF b = 0 THEN a
    ELSE (IF a % 2 = 1 \/ b % 2 = 1 THEN 1 ELSE 0) + 2 * BitOr(a \div 2, b \div 2)

RECURSIVE Pow2(_)
Pow2(n) == IF n = 0 THEN 1 ELSE 2 * Pow2(n - 1)

ShiftLeft(a, n) == a * Pow2(n)
ShiftRight(a, n) == a \div Pow2(n)

\* struct.unpack('<H', b)[0] and struct.pack('<H', v)
UnpackLE16(b) == b[1] + 256 * b[2]
\* Mutant: the 16-bit value packed high byte first.
PackBE16(v) == <<(v \div 256) % 256, v % 256>>
PackLE16(v) == <<v % 256, (v \div 256) % 256>>

Max(a, b) == IF a >= b THEN a ELSE b
Min(a, b) == IF a <= b THEN a ELSE b

-----------------------------------------------------------------------------
(* ENS160 constants.                                                       *)

_REG_PART_ID == 0
_REG_OPMODE == 16
_REG_COMMAND == 18
_REG_TEMP_IN == 19
_REG_RH_IN == 21
_REG_DEVICE_STATUS == 32
_REG_GPR_READ == 72

_OPMODE_DEEP_SLEEP == 0
_OPMODE_IDLE == 1
_OPMODE_STANDARD == 2
_OPMODE_RESET == 240

_CMD_GET_APPVER == 14

_TIMING_RESET == 20
_TIMING_MODE_SWITCH == 10

\* The part identifier __init__ insists on (0x0160).
PART_ID == 352
\* The delay between the two bus attempts of a register helper.
HELPER_RETRY_MS == 10
\* The settle time of update()'s recovery, and of the app-version command.
\* Mutant: the recovery wait cut down to the reset settle time.
RecoveryAsSettle == _TIMING_RESET
RECOVERY_MS == 200
COMMAND_MS == 10

\* Exception classes and the subclass relation of the two modules.
IsSubclass(cls, base) ==
    \/ cls = base
    \/ base = "Exception"
    \/ base = "ENS160Error" /\ cls \in {"ENS160InitError", "ENS160CommunicationError",
                                        "ENS160DataError"}
    \/ base = "AHT21Error" /\ cls \in {"AHT21CalibrationError", "AHT21CRCError",
                                       "AHT21TimeoutError"}

-----------------------------------------------------------------------------
(* What the bus and the gas sensor may answer.                             *)

\* Results the bus gives to the first and to the second attempt of a helper.
BusAnswers == {<<TRUE, TRUE>>, <<FALSE, TRUE>>, <<FALSE, FALSE>>}

\* Two bytes read at PART_ID: the ENS160's, a neighbouring value, byte-swapped.
PartIdBytes == {<<96, 1>>, <<97, 1>>, <<1, 96>>}

\* Status bytes: 0x85 has bit 1 (NEWDAT) clear and bits 0, 2, 7 set; 0x02 only bit 1.
StatusBytes == {133, 2}

\* Six bytes read at DEVICE_STATUS, one frame for each validity.
FrameNormal == <<130, 1, 44, 1, 144, 1>>
FrameWarmUp == <<134, 11, 0, 0, 232, 3>>
FrameInitial == <<138, 254, 1, 2, 3, 4>>
FrameError == <<142, 5, 255, 255, 255, 255>>
BurstFrames == {FrameNormal, FrameWarmUp, FrameInitial, FrameError}

\* Eight bytes read at GPR_READ.
GprBlocks == {<<52, 18, 0, 0, 1, 2, 3, 128>>, <<255, 0, 9, 9, 5, 0, 7, 1>>}

\* Arguments of set_compensation, in hundredths of a degree Celsius and of %RH.
CompInputs == {<<2500, 5000>>, <<-5000, -1000>>, <<-4000, 0>>, <<9000, 12000>>,
               <<8500, 10000>>, <<2150, 4030>>}

\* Arguments of get_raw_resistance.
SensorNums == {0, 1, 4, 5}

Properties == {"aqi", "tvoc", "eco2", "status", "warming_up"}

-----------------------------------------------------------------------------
(* Register helpers: one invocation, given the bus answers, yields whether *)
(* it raised, the data it returns and the bus transactions it made.        *)

Sleep(ms) == <<"sleep_ms", ms>>

\* Mutant: a read helper that gives up after the first failed transaction.
_read_registerNoRetry(reg, value, ans) ==
    IF ans[1] THEN
        [raised |-> FALSE, data |-> value,
         bus |-> << <<"readfrom_mem", reg, 1, TRUE, <<value>> >> >>]
    ELSE
        [raised |-> TRUE, data |-> 0,
         bus |-> << <<"readfrom_mem", reg, 1, FALSE, <<>> >> >>]

\* readfrom_mem(address, reg, 1)[0]: the bus delivers <<value>>.
_read_register(reg, value, ans) ==
    IF ans[1] THEN
        [raised |-> FALSE, data |-> <<value>>[1],
         bus |-> << <<"readfrom_mem", reg, 1, TRUE, <<value>> >> >>]
    ELSE IF ans[2] THEN
        [raised |-> FALSE, data |-> <<value>>[1],
         bus |-> << <<"readfrom_mem", reg, 1, FALSE, <<>> >>, Sleep(HELPER_RETRY_MS),
                    <<"readfrom_mem", reg, 1, TRUE, <<value>> >> >>]
    ELSE
        [raised |-> TRUE, data |-> 0,
         bus |-> << <<"readfrom_mem", reg, 1, FALSE, <<>> >>, Sleep(HELPER_RETRY_MS),
                    <<"readfrom_mem", reg, 1, FALSE, <<>> >> >>]

_read_registers(reg, count, bytes, ans) ==
    IF ans[1] THEN
        [raised |-> FALSE, data |-> bytes,
         bus |-> << <<"readfrom_mem", reg, count, TRUE, bytes>> >>]
    ELSE IF ans[2] THEN
        [raised |-> FALSE, data |-> bytes,
         bus |-> << <<"readfrom_mem", reg, count, FALSE, <<>> >>, Sleep(HELPER_RETRY_MS),
                    <<"readfrom_mem", reg, count, TRUE, bytes>> >>]
    ELSE
        [raised |-> TRUE, data |-> <<>>,
         bus |-> << <<"readfrom_mem", reg, count, FALSE, <<>> >>, Sleep(HELPER_RETRY_MS),
                    <<"readfrom_mem", reg, count, FALSE, <<>> >> >>]

_write_register(reg, value, ans) ==
    IF ans[1] THEN
        [raised |-> FALSE, data |-> <<value>>,
         bus |-> << <<"writeto_mem", reg, <<value>>, TRUE>> >>]
    ELSE IF ans[2] THEN
        [raised |-> FALSE, data |-> <<value>>,
         bus |-> << <<"writeto_mem", reg, <<value>>, FALSE>>, Sleep(HELPER_RETRY_MS),
                    <<"writeto_mem", reg, <<value>>, TRUE>> >>]
    ELSE
        [raised |-> TRUE, data |-> <<value>>,
         bus |-> << <<"writeto_mem", reg, <<value>>, FALSE>>, Sleep(HELPER_RETRY_MS),
                    <<"writeto_mem", reg, <<value>>, FALSE>> >>]

_write_register_16(reg, value, ans) ==
    LET data == PackLE16(value) IN
    IF ans[1] THEN
        [raised |-> FALSE, data |-> data,
         bus |-> << <<"writeto_mem", reg, data, TRUE>> >>]
    ELSE IF ans[2] THEN
        [raised |-> FALSE, data |-> data,
         bus |-> << <<"writeto_mem", reg, data, FALSE>>, Sleep(HELPER_RETRY_MS),
                    <<"writeto_mem", reg, data, TRUE>> >>]
    ELSE
        [raised |-> TRUE, data |-> data,
         bus |-> << <<"writeto_mem", reg, data, FALSE>>, Sleep(HELPER_RETRY_MS),
                    <<"writeto_mem", reg, data, FALSE>> >>]

\* The entry a helper invocation leaves in the operation's log.
HelperEvent(name, reg, h) == <<name, reg, h.data, ~h.raised>>

\* The device registers after writeto_mem(reg, data) has been acknowledged.
WriteMem(r, reg, data) ==
    [a \in DOMAIN r |->
        IF a >= reg /\ a < reg + Len(data) THEN data[a - reg + 1] ELSE r[a]]

\* The device registers after a write helper: a write takes effect when the
\* bus acknowledged one of its attempts.
AfterWrite(r, reg, h) == IF h.raised THEN r ELSE WriteMem(r, reg, h.data)

-----------------------------------------------------------------------------
(* The call stack of the ENS160 context.                                   *)

Frame(fn, pc, arg) == [fn |-> fn, pc |-> pc, arg |-> arg]
Top == stack[Len(stack)]
At(fn, pc) == stack # <<>> /\ Top.fn = fn /\ Top.pc = pc
Pop(stk) == SubSeq(stk, 1, Len(stk) - 1)
Goto(stk, pc) == [stk EXCEPT ![Len(stk)].pc = pc]
Call(stk, pc, f) == Append(Goto(stk, pc), f)

\* Number of update() activations on the stack.
Depth(stk) == Cardinality({i \in 1..Len(stk) : stk[i].fn = "update"})

Cache == <<_validity_flag, _aqi, _tvoc, _eco2>>
\* Mutant: the default compensation taken as (0 C, 0 %RH).
DefaultCompensationZero == <<0, 0>>

\* set_compensation(25.0, 50.0) of __init__ and reset(), in hundredths.
DefaultCompensation == <<2500, 5000>>

\* Mutant: the default reading marked Normal instead of WarmUp.
DefaultCacheNormal == <<0, 0, 0, 400>>

\* The reading __init__ and reset() store.
DefaultCache == <<1, 0, 0, 400>>
\* Mutant: a store that replaces the validity flag and keeps the other fields.
SetCacheValidityOnly(c) ==
    /\ _validity_flag' = c[1]
    /\ UNCHANGED <<_aqi, _tvoc, _eco2>>

SetCache(c) ==
    /\ _validity_flag' = c[1]
    /\ _aqi' = c[2]
    /\ _tvoc' = c[3]
    /\ _eco2' = c[4]
KeepCache == UNCHANGED <<_validity_flag, _aqi, _tvoc, _eco2>>

\* The top activation returns v: control goes back to its caller, which goes
\* on up to its next bus access.  update() waiting for reset() sleeps and calls
\* update() again; update() waiting for that inner update() returns its value.
RECURSIVE ReturnFrom(_, _)
ReturnFrom(stk, v) ==
    LET rest == Pop(stk) IN
    IF rest = <<>> THEN
        [stack |-> <<>>, result |-> <<"return", v>>, events |-> <<>>]
    ELSE IF rest[Len(rest)].fn = "update" /\ rest[Len(rest)].pc = "recover" THEN
        [stack |-> Call(rest, "retry", Frame("update", "status", <<>>)),
         result |-> <<"running">>, events |-> <<Sleep(RECOVERY_MS)>>]
    ELSE IF rest[Len(rest)].fn = "update" /\ rest[Len(rest)].pc = "retry" THEN
        ReturnFrom(rest, v)
    ELSE
        [stack |-> rest, result |-> <<"running">>, events |-> <<>>]

\* An exception no activation on the stack handles ends the operation.
RaiseFrom(stk, cls) ==
    [stack |-> <<>>, result |-> <<"raise", cls>>, events |-> <<>>]

\* Continue in the same activation at pc.
Continue(stk, pc) ==
    [stack |-> Goto(stk, pc), result |-> <<"running">>, events |-> <<>>]

\* The effect of a step on the control state and the bookkeeping variables:
\* the helper invocation h (logged as ev), then `after` (sleeps), then `to`.
Step(h, ev, after, to) ==
    /\ helper' = h.bus
    /\ log' = log \o <<ev>> \o after \o to.events
    /\ stack' = to.stack
    /\ result' = to.result
    /\ inst' = IF call[1] = "__init__" /\ to.result[1] = "return" THEN "ready" ELSE inst
    /\ UNCHANGED <<call, entry>>
    /\ UNCHANGED <<ahtVars, conVars, funVars>>

\* The caller invokes a public operation.
Begin(name, args, stk, cache) ==
    /\ call = <<"none">>
    /\ call' = <<name>> \o args
    /\ stack' = stk
    /\ log' = <<>>
    /\ helper' = <<>>
    /\ result' = <<"running">>
    /\ entry' = [cache |-> cache, regs |-> regs]
    /\ UNCHANGED <<inst, regs>>
    /\ UNCHANGED <<ahtVars, conVars, funVars>>

-----------------------------------------------------------------------------
(* ENS160.__init__                                                         *)

Construct ==
    /\ inst = "none"
    /\ Begin("__init__", <<>>, <<Frame("__init__", "part_id", <<>>)>>, DefaultCache)
    /\ SetCache(DefaultCache)

InitPartId ==
    /\ At("__init__", "part_id")
    /\ \E ans \in BusAnswers, bytes \in PartIdBytes :
        LET h == _read_registers(_REG_PART_ID, 2, bytes, ans)
            inTry == IF h.raised THEN "ENS160CommunicationError"
                     ELSE IF UnpackLE16(h.data) # PART_ID THEN "ENS160InitError"
                     ELSE "none"
            exc == IF inTry # "none" /\ IsSubclass(inTry, "OSError")
                   THEN "ENS160InitError" ELSE inTry
        IN  /\ Step(h, HelperEvent("_read_registers", _REG_PART_ID, h), <<>>,
                    IF exc # "none" THEN RaiseFrom(stack, exc)
                    ELSE Continue(stack, "reset"))
            /\ UNCHANGED regs
            /\ KeepCache

InitReset ==
    /\ At("__init__", "reset")
    /\ \E ans \in BusAnswers :
        LET h == _write_register(_REG_OPMODE, _OPMODE_RESET, ans) IN
        /\ Step(h, HelperEvent("_write_register", _REG_OPMODE, h),
                IF h.raised THEN <<>> ELSE <<Sleep(_TIMING_RESET)>>,
                IF h.raised THEN RaiseFrom(stack, "ENS160CommunicationError")
                ELSE Continue(stack, "idle"))
        /\ regs' = AfterWrite(regs, _REG_OPMODE, h)
        /\ KeepCache

InitIdle ==
    /\ At("__init__", "idle")
    /\ \E ans \in BusAnswers :
        LET h == _write_register(_REG_OPMODE, _OPMODE_IDLE, ans) IN
        /\ Step(h, HelperEvent("_write_register", _REG_OPMODE, h),
                IF h.raised THEN <<>> ELSE <<Sleep(_TIMING_MODE_SWITCH)>>,
                IF h.raised THEN RaiseFrom(stack, "ENS160CommunicationError")
                ELSE [stack |-> Call(stack, "std",
                                     Frame("set_compensation", "temp", DefaultCompensation)),
                      result |-> <<"running">>, events |-> <<>>])
        /\ regs' = AfterWrite(regs, _REG_OPMODE, h)
        /\ KeepCache

InitStandard ==
    /\ At("__init__", "std")
    /\ \E ans \in BusAnswers :
        LET h == _write_register(_REG_OPMODE, _OPMODE_STANDARD, ans) IN
        /\ Step(h, HelperEvent("_write_register", _REG_OPMODE, h),
                IF h.raised THEN <<>> ELSE <<Sleep(_TIMING_MODE_SWITCH)>>,
                IF h.raised THEN RaiseFrom(stack, "ENS160CommunicationError")
                ELSE ReturnFrom(stack, "None"))
        /\ regs' = AfterWrite(regs, _REG_OPMODE, h)
        /\ KeepCache

-----------------------------------------------------------------------------
(* ENS160.set_compensation; temperatures and humidities in hundredths.     *)

\* Mutant: the temperature encoded as given.
ClipTemperatureNone(t) == t

ClipTemperature(t) == Max(-4000, Min(8500, t))
ClipHumidity(rh) == Max(0, Min(10000, rh))
\* Mutant: the temperature value rounded to the nearest integer.
TempValueRounded(t) == ((ClipTemperature(t) + 27315) * 64 + 50) \div 100

\* int((temperature_c + 273.15) * 64) and int(humidity_rh * 512): int() truncates.
TempValue(t) == ((ClipTemperature(t) + 27315) * 64) \div 100
RhValue(rh) == (ClipHumidity(rh) * 512) \div 100

SetCompensation ==
    /\ inst = "ready"
    /\ \E a \in CompInputs :
        Begin("set_compensation", a, <<Frame("set_compensation", "temp", a)>>, Cache)
    /\ KeepCache

CompTemp ==
    /\ At("set_compensation", "temp")
    /\ \E ans \in BusAnswers :
        LET h == _write_register_16(_REG_TEMP_IN, TempValue(Top.arg[1]), ans) IN
        /\ Step(h, HelperEvent("_write_register_16", _REG_TEMP_IN, h), <<>>,
                IF h.raised THEN RaiseFrom(stack, "ENS160CommunicationError")
                ELSE Continue(stack, "rh"))
        /\ regs' = AfterWrite(regs, _REG_TEMP_IN, h)
        /\ KeepCache

CompRh ==
    /\ At("set_compensation", "rh")
    /\ \E ans \in BusAnswers :
        LET h == _write_register_16(_REG_RH_IN, RhValue(Top.arg[2]), ans) IN
        /\ Step(h, HelperEvent("_write_register_16", _REG_RH_IN, h), <<>>,
                IF h.raised THEN RaiseFrom(stack, "ENS160CommunicationError")
                ELSE ReturnFrom(stack, "None"))
        /\ regs' = AfterWrite(regs, _REG_RH_IN, h)
        /\ KeepCache

-----------------------------------------------------------------------------
(* ENS160.update                                                           *)

\* The fields update() parses out of the six burst bytes data[0..5].
ParseValidity(data) == BitAnd(ShiftRight(data[1], 2), 3)
ParseAqi(data) == BitAnd(data[2], 7)
\* Mutant: the two TVOC bytes taken big-endian.
ParseTvocBigEndian(data) == 256 * data[3] + data[4]
ParseTvoc(data) == UnpackLE16(SubSeq(data, 3, 4))
ParseEco2(data) == UnpackLE16(SubSeq(data, 5, 6))
Parse(data) == <<ParseValidity(data), ParseAqi(data), ParseTvoc(data), ParseEco2(data)>>

\* Mutant: bit 0 tested instead of bit 1.
NewDataBit0(status_byte) == BitAnd(status_byte, 1) # 0

\* status_byte & 0x02
NewData(status_byte) == BitAnd(status_byte, 2) # 0

\* Mutant: warm-up readings reported as valid too.
IsNormalOrWarmUp(flag) == flag <= 1

\* update()'s return value: self._validity_flag == 0
IsNormal(flag) == flag = 0

\* Mutant: an Error reading handed to the caller like any other.
NeedsRecoveryNever(flag) == FALSE

\* update()'s recovery test: self._validity_flag == 3
NeedsRecovery(flag) == flag = 3

Update ==
    /\ inst = "ready"
    /\ Begin("update", <<>>, <<Frame("update", "status", <<>>)>>, Cache)
    /\ KeepCache

UpdateStatus ==
    /\ At("update", "status")
    /\ \E ans \in BusAnswers, status_byte \in StatusBytes :
        LET h == _read_register(_REG_DEVICE_STATUS, status_byte, ans) IN
        /\ Step(h, HelperEvent("_read_register", _REG_DEVICE_STATUS, h), <<>>,
                IF h.raised THEN RaiseFrom(stack, "ENS160CommunicationError")
                ELSE IF ~NewData(h.data) THEN ReturnFrom(stack, FALSE)
                ELSE Continue(stack, "burst"))
        /\ UNCHANGED regs
        /\ KeepCache

UpdateBurst ==
    /\ At("update", "burst")
    /\ \E ans \in BusAnswers, data \in BurstFrames :
        LET h == _read_registers(_REG_DEVICE_STATUS, 6, data, ans) IN
        \* the device stops reporting Error once update() is nested MaxDepth deep
        /\ h.raised \/ ParseValidity(data) # 3 \/ Depth(stack) < MaxDepth
        /\ Step(h, HelperEvent("_read_registers", _REG_DEVICE_STATUS, h), <<>>,
                IF h.raised THEN RaiseFrom(stack, "ENS160CommunicationError")
                ELSE IF NeedsRecovery(ParseValidity(h.data)) THEN
                    [stack |-> Call(stack, "recover", Frame("reset", "reset", <<>>)),
                     result |-> <<"running">>, events |-> <<>>]
                ELSE ReturnFrom(stack, IsNormal(ParseValidity(h.data))))
        /\ UNCHANGED regs
        /\ IF h.raised THEN KeepCache ELSE SetCache(Parse(h.data))

-----------------------------------------------------------------------------
(* ENS160.reset                                                            *)

Reset ==
    /\ inst = "ready"
    /\ Begin("reset", <<>>, <<Frame("reset", "reset", <<>>)>>, Cache)
    /\ KeepCache

ResetReset ==
    /\ At("reset", "reset")
    /\ \E ans \in BusAnswers :
        LET h == _write_register(_REG_OPMODE, _OPMODE_RESET, ans) IN
        /\ Step(h, HelperEvent("_write_register", _REG_OPMODE, h),
                IF h.raised THEN <<>> ELSE <<Sleep(_TIMING_RESET)>>,
                IF h.raised THEN RaiseFrom(stack, "ENS160CommunicationError")
                ELSE Continue(stack, "idle"))
        /\ regs' = AfterWrite(regs, _REG_OPMODE, h)
        /\ KeepCache

ResetIdle ==
    /\ At("reset", "idle")
    /\ \E ans \in BusAnswers :
        LET h == _write_register(_REG_OPMODE, _OPMODE_IDLE, ans) IN
        /\ Step(h, HelperEvent("_write_register", _REG_OPMODE, h),
                IF h.raised THEN <<>> ELSE <<Sleep(_TIMING_MODE_SWITCH)>>,
                IF h.raised THEN RaiseFrom(stack, "ENS160CommunicationError")
                ELSE [stack |-> Call(stack, "std",
                                     Frame("set_compensation", "temp", DefaultCompensation)),
                      result |-> <<"running">>, events |-> <<>>])
        /\ regs' = AfterWrite(regs, _REG_OPMODE, h)
        /\ KeepCache

ResetStandard ==
    /\ At("reset", "std")
    /\ \E ans \in BusAnswers :
        LET h == _write_register(_REG_OPMODE, _OPMODE_STANDARD, ans) IN
        /\ Step(h, HelperEvent("_write_register", _REG_OPMODE, h),
                IF h.raised THEN <<>> ELSE <<Sleep(_TIMING_MODE_SWITCH)>>,
                IF h.raised THEN RaiseFrom(stack, "ENS160CommunicationError")
                ELSE ReturnFrom(stack, "None"))
        /\ regs' = AfterWrite(regs, _REG_OPMODE, h)
        /\ IF h.raised THEN KeepCache ELSE SetCache(DefaultCache)

-----------------------------------------------------------------------------
(* ENS160.get_firmware_version: the try body, then the finally clause with *)
(* the pending return value or exception in the frame's arg.               *)

GetFirmwareVersion ==
    /\ inst = "ready"
    /\ Begin("get_firmware_version", <<>>,
             <<Frame("get_firmware_version", "idle", <<>>)>>, Cache)
    /\ KeepCache

\* Mutant: the finally clause writes the mode the try body had set.
current_modeIdle == _OPMODE_IDLE

\* The mode get_firmware_version saves on entry and restores on exit.
current_mode == _OPMODE_STANDARD

\* Mutant: the mode restored only when the try body completes.
FinallyOnlyOnSuccess(stk, pending) ==
    IF pending[1] = "raise" THEN RaiseFrom(stk, pending[2])
    ELSE [stack |-> [stk EXCEPT ![Len(stk)] =
                        Frame("get_firmware_version", "finally", pending)],
          result |-> <<"running">>, events |-> <<>>]

\* Leave the try body for the finally clause with `pending` to complete.
Finally(stk, pending) ==
    [stack |-> [stk EXCEPT ![Len(stk)] = Frame("get_firmware_version", "finally", pending)],
     result |-> <<"running">>, events |-> <<>>]

FirmwareIdle ==
    /\ At("get_firmware_version", "idle")
    /\ \E ans \in BusAnswers :
        LET h == _write_register(_REG_OPMODE, _OPMODE_IDLE, ans) IN
        /\ Step(h, HelperEvent("_write_register", _REG_OPMODE, h),
                IF h.raised THEN <<>> ELSE <<Sleep(_TIMING_MODE_SWITCH)>>,
                IF h.raised THEN Finally(stack, <<"raise", "ENS160CommunicationError">>)
                ELSE Continue(stack, "cmd"))
        /\ regs' = AfterWrite(regs, _REG_OPMODE, h)
        /\ KeepCache

FirmwareCommand ==
    /\ At("get_firmware_version", "cmd")
    /\ \E ans \in BusAnswers :
        LET h == _write_register(_REG_COMMAND, _CMD_GET_APPVER, ans) IN
        /\ Step(h, HelperEvent("_write_register", _REG_COMMAND, h),
                IF h.raised THEN <<>> ELSE <<Sleep(COMMAND_MS)>>,
                IF h.raised THEN Finally(stack, <<"raise", "ENS160CommunicationError">>)
                ELSE Continue(stack, "gpr"))
        /\ regs' = AfterWrite(regs, _REG_COMMAND, h)
        /\ KeepCache

\* f"{major}.{minor}.{release}" of gpr_data[4], gpr_data[5], gpr_data[6]
VersionString(gpr_data) == <<gpr_data[5], gpr_data[6], gpr_data[7]>>

FirmwareGpr ==
    /\ At("get_firmware_version", "gpr")
    /\ \E ans \in BusAnswers, gpr_data \in GprBlocks :
        LET h == _read_registers(_REG_GPR_READ, 8, gpr_data, ans) IN
        /\ Step(h, HelperEvent("_read_registers", _REG_GPR_READ, h), <<>>,
                IF h.raised THEN Finally(stack, <<"raise", "ENS160CommunicationError">>)
                ELSE Finally(stack, <<"return", VersionString(h.data)>>))
        /\ UNCHANGED regs
        /\ KeepCache

FirmwareFinally ==
    /\ At("get_firmware_version", "finally")
    /\ \E ans \in BusAnswers :
        LET h == _write_register(_REG_OPMODE, current_mode, ans)
            pending == Top.arg
        IN
        /\ Step(h, HelperEvent("_write_register", _REG_OPMODE, h),
                IF h.raised THEN <<>> ELSE <<Sleep(_TIMING_MODE_SWITCH)>>,
                IF h.raised THEN RaiseFrom(stack, "ENS160CommunicationError")
                ELSE IF pending[1] = "raise" THEN RaiseFrom(stack, pending[2])
                ELSE ReturnFrom(stack, pending[2]))
        /\ regs' = AfterWrite(regs, _REG_OPMODE, h)
        /\ KeepCache

-----------------------------------------------------------------------------
(* ENS160.get_raw_resistance                                               *)

GetRawResistance ==
    /\ inst = "ready"
    /\ \E sensor_num \in SensorNums :
        IF sensor_num \notin {1, 4} THEN
            /\ call = <<"none">>
            /\ call' = <<"get_raw_resistance", sensor_num>>
            /\ stack' = <<>>
            /\ log' = <<>>
            /\ helper' = <<>>
            /\ result' = <<"raise", "ValueError">>
            /\ entry' = [cache |-> Cache, regs |-> regs]
            /\ UNCHANGED <<inst, regs>>
            /\ UNCHANGED <<ahtVars, conVars, funVars>>
        ELSE
            Begin("get_raw_resistance", <<sensor_num>>,
                  <<Frame("get_raw_resistance", "gpr", <<sensor_num>>)>>, Cache)
    /\ KeepCache

\* Mutant: bytes 0-1 returned for either sensor.
RawValueFirstWord(sensor_num, gpr_data) == UnpackLE16(SubSeq(gpr_data, 1, 2))

\* R1_raw at gpr_data[0:2], R4_raw at gpr_data[6:8], little-endian.
RawValue(sensor_num, gpr_data) ==
    IF sensor_num = 1 THEN UnpackLE16(SubSeq(gpr_data, 1, 2))
    ELSE UnpackLE16(SubSeq(gpr_data, 7, 8))

RawResistanceGpr ==
    /\ At("get_raw_resistance", "gpr")
    /\ \E ans \in BusAnswers, gpr_data \in GprBlocks :
        LET h == _read_registers(_REG_GPR_READ, 8, gpr_data, ans)
            sensor_num == Top.arg[1]
        IN
        /\ Step(h, HelperEvent("_read_registers", _REG_GPR_READ, h), <<>>,
                IF h.raised THEN RaiseFrom(stack, "ENS160CommunicationError")
                ELSE ReturnFrom(stack, RawValue(sensor_num, h.data)))
        /\ UNCHANGED regs
        /\ KeepCache

-----------------------------------------------------------------------------
(* The read-only properties aqi, tvoc, eco2, status, warming_up.           *)

StatusMap(flag) ==
    CASE flag = 0 -> "OK"
      [] flag = 1 -> "Warm-up"
      [] flag = 2 -> "Initial Startup"
      [] flag = 3 -> "Error"
      [] OTHER -> "Unknown"

PropertyValue(p) ==
    CASE p = "aqi" -> _aqi
      [] p = "tvoc" -> _tvoc
      [] p = "eco2" -> _eco2
      [] p = "status" -> StatusMap(_validity_flag)
      [] p = "warming_up" -> (_validity_flag = 1)

ReadProperty ==
    /\ inst = "ready"
    /\ call = <<"none">>
    /\ \E p \in Properties :
        /\ call' = <<p>>
        /\ result' = <<"return", PropertyValue(p)>>
    /\ stack' = <<>>
    /\ log' = <<>>
    /\ helper' = <<>>
    /\ entry' = [cache |-> Cache, regs |-> regs]
    /\ UNCHANGED <<inst, regs>>
    /\ UNCHANGED <<ahtVars, conVars, funVars>>
    /\ KeepCache

-----------------------------------------------------------------------------
(* The caller takes the outcome of the operation and goes on.              *)

Proceed ==
    /\ call # <<"none">>
    /\ stack = <<>>
    /\ call' = <<"none">>
    /\ log' = <<>>
    /\ helper' = <<>>
    /\ result' = <<"none">>
    /\ entry' = [cache |-> <<>>, regs |-> <<>>]
    /\ UNCHANGED <<inst, stack, regs>>
    /\ UNCHANGED <<ahtVars, conVars, funVars>>
    /\ KeepCache

-----------------------------------------------------------------------------

\* Registers the driver writes; the sensor powers up in one of its idle modes
\* with the compensation inputs cleared.
RegAddrs == {_REG_OPMODE, _REG_COMMAND, _REG_TEMP_IN, _REG_TEMP_IN + 1,
             _REG_RH_IN, _REG_RH_IN + 1}

EnsInit ==
    /\ inst = "none"
    /\ stack = <<>>
    /\ _aqi = 0
    /\ _tvoc = 0
    /\ _eco2 = 400
    /\ _validity_flag = 1
    /\ \E m \in {_OPMODE_DEEP_SLEEP, _OPMODE_IDLE, _OPMODE_STANDARD} :
        regs = [a \in RegAddrs |-> IF a = _REG_OPMODE THEN m ELSE 0]
    /\ call = <<"none">>
    /\ log = <<>>
    /\ helper = <<>>
    /\ result = <<"none">>
    /\ entry = [cache |-> <<>>, regs |-> <<>>]

EnsNext ==
    \/ Construct \/ InitPartId \/ InitReset \/ InitIdle \/ InitStandard
    \/ SetCompensation \/ CompTemp \/ CompRh
    \/ Update \/ UpdateStatus \/ UpdateBurst
    \/ Reset \/ ResetReset \/ ResetIdle \/ ResetStandard
    \/ GetFirmwareVersion \/ FirmwareIdle \/ FirmwareCommand \/ FirmwareGpr
    \/ FirmwareFinally
    \/ GetRawResistance \/ RawResistanceGpr
    \/ ReadProperty
    \/ Proceed

(* AHT21 constants.                                                        *)

AHT21_CMD_STATUS == 113
AHT21_CMD_SOFTRESET == 186
AHT21_CMD_INITIALIZE == 190
AHT21_CMD_TRIGGER == 172
AHT21_STATUS_BUSY == 128
AHT21_STATUS_CALIBRATED == 24
AHT21_CRC_POLYNOMIAL == 49
AHT21_CRC_INIT == 255
AHT21_POWERUP_DELAY == 100
AHT21_SOFTRESET_DELAY == 20
AHT21_INIT_DELAY == 10
AHT21_MEASUREMENT_DELAY == 80
AHT21_BUSY_TIMEOUT == 150
\* range(3) of the calibration loop, the poll interval, the inter-retry delay
CALIBRATION_ATTEMPTS == 3
POLL_MS == 5
RETRY_DELAY_MS == 50

\* Largest `retries` argument tried, and the longest a status poll takes (ms).
MaxRetries == 3
MaxPollMs == 1

\* Status bytes: calibrated and idle, calibrated and busy, bit 3 only, bit 4
\* only, busy and uncalibrated.
AhtStatusBytes == {24, 152, 8, 16, 128}

\* Seven bytes of a measurement: two frames with the right checksum, one with
\* the seventh byte off by one, one with a data bit flipped under the old checksum.
AhtFrameA == <<28, 128, 0, 6, 0, 0, 78>>
AhtFrameB == <<24, 18, 52, 86, 120, 154, 133>>
AhtFrameBadCrc == <<28, 128, 0, 6, 0, 0, 79>>
AhtFrameFlipped == <<28, 128, 0, 7, 0, 0, 78>>
AhtFrames == {AhtFrameA, AhtFrameB, AhtFrameBadCrc, AhtFrameFlipped}

-----------------------------------------------------------------------------
(* AHT21._calculate_crc8                                                   *)

\* The inner loop: `n` more of the 8 shifts, the accumulator not masked.
RECURSIVE CrcShifts(_, _)
CrcShifts(crc, n) ==
    IF n = 0 THEN crc
    ELSE IF BitAnd(crc, 128) # 0
         THEN CrcShifts(BitXor(ShiftLeft(crc, 1), AHT21_CRC_POLYNOMIAL), n - 1)
         ELSE CrcShifts(ShiftLeft(crc, 1), n - 1)

\* Mutant: the accumulator never masked to 8 bits.
RECURSIVE CrcBytesNoMask(_, _)
CrcBytesNoMask(crc, bytes) ==
    IF bytes = <<>> THEN crc
    ELSE CrcBytesNoMask(CrcShifts(BitXor(crc, Head(bytes)), 8), Tail(bytes))

\* The outer loop over the bytes, masking to 8 bits after each byte.
RECURSIVE CrcBytes(_, _)
CrcBytes(crc, bytes) ==
    IF bytes = <<>> THEN crc
    ELSE CrcBytes(BitAnd(CrcShifts(BitXor(crc, Head(bytes)), 8), 255), Tail(bytes))

_calculate_crc8(data) == CrcBytes(AHT21_CRC_INIT, SubSeq(data, 1, Min(6, Len(data))))

\* Mutant: the comparison written with > instead of !=.
CrcMismatchGreater(data) == _calculate_crc8(SubSeq(data, 1, 6)) > data[7]

\* The CRC comparison of step 5: calculated_crc != data[6]
CrcMismatch(data) == _calculate_crc8(SubSeq(data, 1, 6)) # data[7]

\* The 20-bit fields of a frame.
RawHumidity(data) ==
    BitOr(BitOr(ShiftLeft(data[2], 12), ShiftLeft(data[3], 4)), ShiftRight(data[4], 4))
\* Mutant: the low nibble of data[3] not masked out.
RawTemperatureNoMask(data) ==
    BitOr(BitOr(ShiftLeft(data[4], 16), ShiftLeft(data[5], 8)), data[6])

RawTemperature(data) ==
    BitOr(BitOr(ShiftLeft(BitAnd(data[4], 15), 16), ShiftLeft(data[5], 8)), data[6])

\* (temperature, humidity) in units of 1/1048576: raw / 1048576 * 200 - 50 and
\* raw / 1048576 * 100.
Measurement(data) ==
    <<RawTemperature(data) * 200 - 50 * 1048576, RawHumidity(data) * 100>>

\* Mutant: either calibration bit accepted.
_is_calibratedAnyBit(status) == BitAnd(status, AHT21_STATUS_CALIBRATED) # 0

_is_busy(status) == BitAnd(status, AHT21_STATUS_BUSY) # 0
_is_calibrated(status) == BitAnd(status, AHT21_STATUS_CALIBRATED) = 24

-----------------------------------------------------------------------------
(* The AHT21 context.                                                      *)

\* One step of an AHT21 operation.
AhtStep(pc, events, res) ==
    /\ apc' = pc
    /\ alog' = alog \o events
    /\ aresult' = res
    /\ aht' = IF acall[1] = "__init__" /\ res[1] = "return" THEN "ready" ELSE aht
    /\ UNCHANGED acall
    /\ UNCHANGED <<ensVars, conVars, funVars>>

AhtRunning == <<"running">>
AhtRaise(cls) == <<"raise", cls>>

\* writeto / readfrom transactions as they appear in the log.
WriteTo(bytes, ok) == <<"writeto", bytes, ok>>
ReadFrom(n, bytes, ok) == <<"readfrom", n, bytes, ok>>

\* _read_status(): writeto([0x71]) then readfrom(1); either may fail.
\* `ok` is the pair of bus answers, the second used only after the first.
_read_status(status, ok) ==
    IF ~ok[1] THEN
        [raised |-> TRUE, status |-> 0,
         bus |-> <<WriteTo(<<AHT21_CMD_STATUS>>, FALSE)>>]
    ELSE IF ~ok[2] THEN
        [raised |-> TRUE, status |-> 0,
         bus |-> <<WriteTo(<<AHT21_CMD_STATUS>>, TRUE), ReadFrom(1, <<>>, FALSE)>>]
    ELSE
        [raised |-> FALSE, status |-> status,
         bus |-> <<WriteTo(<<AHT21_CMD_STATUS>>, TRUE), ReadFrom(1, <<status>>, TRUE)>>]

AhtBusAnswers == {<<TRUE, TRUE>>, <<TRUE, FALSE>>, <<FALSE, FALSE>>}

-----------------------------------------------------------------------------
(* AHT21.__init__                                                          *)

AhtConstruct ==
    /\ aht = "none"
    /\ acall = <<"none">>
    /\ acall' = <<"__init__">>
    /\ apc' = "soft_reset"
    /\ alog' = <<Sleep(AHT21_POWERUP_DELAY)>>
    /\ aresult' = AhtRunning
    /\ attempt' = 0
    /\ UNCHANGED <<aht, elapsed, polls, busy>>
    /\ UNCHANGED <<ensVars, conVars, funVars>>

AhtSoftReset ==
    /\ acall[1] = "__init__" /\ apc = "soft_reset"
    /\ \E ok \in BOOLEAN :
        IF ok THEN
            AhtStep("calibrate",
                    <<WriteTo(<<AHT21_CMD_SOFTRESET>>, TRUE), Sleep(AHT21_SOFTRESET_DELAY)>>,
                    AhtRunning)
        ELSE
            AhtStep("ended", <<WriteTo(<<AHT21_CMD_SOFTRESET>>, FALSE)>>, AhtRaise("OSError"))
    /\ UNCHANGED <<attempt, elapsed, polls, busy>>

\* `if self._is_calibrated(): return`
AhtCalibrationCheck ==
    /\ acall[1] = "__init__" /\ apc = "calibrate"
    /\ \E ok \in AhtBusAnswers, status \in AhtStatusBytes :
        LET s == _read_status(status, ok) IN
        IF s.raised THEN AhtStep("ended", s.bus, AhtRaise("OSError"))
        ELSE IF _is_calibrated(s.status) THEN AhtStep("ended", s.bus, <<"return", "None">>)
        ELSE AhtStep("initialize", s.bus, AhtRunning)
    /\ UNCHANGED <<attempt, elapsed, polls, busy>>

\* The initialize command, the end of the loop body, and the raise after the loop.
AhtInitialize ==
    /\ acall[1] = "__init__" /\ apc = "initialize"
    /\ \E ok \in BOOLEAN :
        LET cmd == <<AHT21_CMD_INITIALIZE, 8, 0>> IN
        IF ~ok THEN
            /\ AhtStep("ended", <<WriteTo(cmd, FALSE)>>, AhtRaise("OSError"))
            /\ UNCHANGED attempt
        ELSE IF attempt + 1 < CALIBRATION_ATTEMPTS THEN
            /\ AhtStep("calibrate", <<WriteTo(cmd, TRUE), Sleep(AHT21_INIT_DELAY)>>,
                       AhtRunning)
            /\ attempt' = attempt + 1
        ELSE
            /\ AhtStep("ended", <<WriteTo(cmd, TRUE), Sleep(AHT21_INIT_DELAY)>>,
                       AhtRaise("AHT21CalibrationError"))
            /\ UNCHANGED attempt
    /\ UNCHANGED <<elapsed, polls, busy>>

-----------------------------------------------------------------------------
(* AHT21.read_temperature_humidity                                         *)

\* `for attempt in range(retries)` with no iteration returns None at once.
ReadTemperatureHumidity ==
    /\ aht = "ready"
    /\ acall = <<"none">>
    /\ \E retries \in 0..MaxRetries :
        /\ acall' = <<"read_temperature_humidity", retries>>
        /\ apc' = IF retries = 0 THEN "ended" ELSE "trigger"
        /\ aresult' = IF retries = 0 THEN <<"return", "None">> ELSE AhtRunning
    /\ alog' = <<>>
    /\ attempt' = 0
    /\ UNCHANGED <<aht, elapsed, polls, busy>>
    /\ UNCHANGED <<ensVars, conVars, funVars>>

\* Mutant: a handler that retries after any exception, transport failures too.
HandlerAnyError(cls, att, retries) ==
    IF att = retries - 1
    THEN [pc |-> "ended", events |-> <<AhtRaise(cls)>>, res |-> AhtRaise(cls),
          attempt |-> att]
    ELSE [pc |-> "trigger", events |-> <<AhtRaise(cls), Sleep(RETRY_DELAY_MS)>>,
          res |-> AhtRunning, attempt |-> att + 1]

\* Mutant: the last attempt recognised one round late.
HandlerOffByOne(cls, att, retries) ==
    IF IsSubclass(cls, "AHT21CRCError") \/ IsSubclass(cls, "AHT21TimeoutError") THEN
        IF att = retries
        THEN [pc |-> "ended", events |-> <<AhtRaise(cls)>>, res |-> AhtRaise(cls),
              attempt |-> att]
        ELSE [pc |-> "trigger", events |-> <<AhtRaise(cls), Sleep(RETRY_DELAY_MS)>>,
              res |-> AhtRunning, attempt |-> att + 1]
    ELSE [pc |-> "ended", events |-> <<>>, res |-> AhtRaise(cls), attempt |-> att]

\* The handler `except (AHT21CRCError, AHT21TimeoutError)`: re-raise on the
\* last attempt, else sleep and go round the loop.  OSError is not handled.
\* Yields the next position, the events and the result.
Handler(cls, att, retries) ==
    IF IsSubclass(cls, "AHT21CRCError") \/ IsSubclass(cls, "AHT21TimeoutError") THEN
        IF att = retries - 1
        THEN [pc |-> "ended", events |-> <<AhtRaise(cls)>>, res |-> AhtRaise(cls),
              attempt |-> att]
        ELSE [pc |-> "trigger", events |-> <<AhtRaise(cls), Sleep(RETRY_DELAY_MS)>>,
              res |-> AhtRunning, attempt |-> att + 1]
    ELSE [pc |-> "ended", events |-> <<>>, res |-> AhtRaise(cls), attempt |-> att]

AhtTrigger ==
    /\ acall[1] = "read_temperature_humidity" /\ apc = "trigger"
    /\ \E ok \in BOOLEAN :
        LET cmd == <<AHT21_CMD_TRIGGER, 51, 0>> IN
        IF ok THEN
            /\ AhtStep("poll", <<WriteTo(cmd, TRUE), Sleep(AHT21_MEASUREMENT_DELAY)>>,
                       AhtRunning)
            /\ elapsed' = 0
            /\ polls' = 0
            /\ busy' = 0
            /\ UNCHANGED attempt
        ELSE
            LET x == Handler("OSError", attempt, acall[2]) IN
            /\ AhtStep(x.pc, <<WriteTo(cmd, FALSE)>> \o x.events, x.res)
            /\ attempt' = x.attempt
            /\ UNCHANGED <<elapsed, polls, busy>>

\* Mutant: the bound itself counted as a timeout.
TimedOutAtBound(ms) == ms >= AHT21_BUSY_TIMEOUT

\* ticks_diff(ticks_ms(), start_time) > AHT21_BUSY_TIMEOUT
TimedOut(ms) == ms > AHT21_BUSY_TIMEOUT

\* One round of `while self._is_busy()`: the status poll, which takes d ms, then
\* the timeout test and the 5 ms sleep.
AhtPoll ==
    /\ acall[1] = "read_temperature_humidity" /\ apc = "poll"
    /\ \E ok \in AhtBusAnswers, status \in AhtStatusBytes, d \in 0..MaxPollMs :
        LET s == _read_status(status, ok)
            now == elapsed + d
        IN
        IF s.raised THEN
            LET x == Handler("OSError", attempt, acall[2]) IN
            /\ AhtStep(x.pc, s.bus \o x.events, x.res)
            /\ attempt' = x.attempt
            /\ UNCHANGED <<elapsed, polls, busy>>
        ELSE IF ~_is_busy(s.status) THEN
            \* the loop ends: start_time is not read again
            /\ AhtStep("read", <<>>, AhtRunning)
            /\ elapsed' = 0
            /\ polls' = polls + 1
            /\ UNCHANGED <<attempt, busy>>
        ELSE IF TimedOut(now) THEN
            LET x == Handler("AHT21TimeoutError", attempt, acall[2]) IN
            /\ AhtStep(x.pc, x.events, x.res)
            /\ attempt' = x.attempt
            /\ elapsed' = now
            /\ polls' = polls + 1
            /\ busy' = busy + 1
        ELSE
            /\ AhtStep("poll", <<>>, AhtRunning)
            /\ elapsed' = now + POLL_MS
            /\ polls' = polls + 1
            /\ busy' = busy + 1
            /\ UNCHANGED attempt

\* Steps 4 to 7: the 7-byte read, the CRC check, the decoding.
AhtRead ==
    /\ acall[1] = "read_temperature_humidity" /\ apc = "read"
    /\ \E ok \in BOOLEAN, data \in AhtFrames :
        IF ~ok THEN
            LET x == Handler("OSError", attempt, acall[2]) IN
            /\ AhtStep(x.pc, <<ReadFrom(7, <<>>, FALSE)>> \o x.events, x.res)
            /\ attempt' = x.attempt
        ELSE IF CrcMismatch(data) THEN
            LET x == Handler("AHT21CRCError", attempt, acall[2]) IN
            /\ AhtStep(x.pc, <<ReadFrom(7, data, TRUE)>> \o x.events, x.res)
            /\ attempt' = x.attempt
        ELSE
            /\ AhtStep("ended", <<ReadFrom(7, data, TRUE)>>, <<"return", Measurement(data)>>)
            /\ UNCHANGED attempt
    /\ UNCHANGED <<elapsed, polls, busy>>

\* The caller takes the outcome and goes on.
AhtProceed ==
    /\ acall # <<"none">>
    /\ apc = "ended"
    /\ acall' = <<"none">>
    /\ apc' = "idle"
    /\ alog' = <<>>
    /\ aresult' = <<"none">>
    /\ attempt' = 0
    /\ elapsed' = 0
    /\ polls' = 0
    /\ busy' = 0
    /\ UNCHANGED aht
    /\ UNCHANGED <<ensVars, conVars, funVars>>

AhtInit ==
    /\ aht = "none"
    /\ apc = "idle"
    /\ acall = <<"none">>
    /\ attempt = 0
    /\ elapsed = 0
    /\ polls = 0
    /\ busy = 0
    /\ alog = <<>>
    /\ aresult = <<"none">>

AhtNext ==
    \/ AhtConstruct \/ AhtSoftReset \/ AhtCalibrationCheck \/ AhtInitialize
    \/ ReadTemperatureHumidity \/ AhtTrigger \/ AhtPoll \/ AhtRead
    \/ AhtProceed

-----------------------------------------------------------------------------
(* Two execution contexts sharing one ENS160 instance on a healthy bus.    *)
(* Each runs the loop of the module's threading notes: update(), then the  *)
(* properties, wrapped in sensor_lock when the callers follow the notes.   *)
(* A step is one bus transaction or one access to a field of the instance. *)

Contexts == {1, 2}

\* What the device answers to the k-th burst read, with validity v: the AQI,
\* TVOC and eCO2 bytes tell the bursts apart.
DeviceFrame(k, v) == <<128 + 4 * v + 2, k, k, 0, (400 + k) % 256, (400 + k) \div 256>>
DeviceValidities == {0, 3}

Unread == <<-1, -1, -1, -1>>

\* Positions at which the next step is a bus transaction of update() or reset().
BusPcs == {"u_status", "u_retry", "u_burst", "r_reset", "r_idle", "r_temp", "r_rh", "r_std"}

ConGoto(c, pc) == cpc' = [cpc EXCEPT ![c] = pc]

\* Mutant: a lock that never makes a context wait.
CanAcquireAlways == TRUE

\* sensor_lock.acquire() goes through when no context holds the lock.
CanAcquire == sensor_lock = 0

\* `with sensor_lock:` (or nothing, for callers that ignore the notes), then
\* the call of ens.update().
ConAcquire(c) ==
    /\ cpc[c] = "idle"
    /\ locking => CanAcquire
    /\ sensor_lock' = IF locking THEN c ELSE sensor_lock
    /\ ConGoto(c, "u_status")
    /\ UNCHANGED <<locking, cdata, creading, nbursts>>
    /\ UNCHANGED <<ensVars, ahtVars, funVars>>

\* status_byte = self._read_register(_REG_DEVICE_STATUS) and the NEWDAT test.
ConUpdateStatus(c) ==
    /\ cpc[c] \in {"u_status", "u_retry"}
    /\ \E status_byte \in StatusBytes :
        /\ NewData(status_byte) => nbursts < MaxBursts
        /\ ConGoto(c, IF NewData(status_byte) THEN "u_burst" ELSE "p_aqi")
    /\ UNCHANGED <<locking, sensor_lock, cdata, creading, nbursts>>
    /\ UNCHANGED <<ensVars, ahtVars, funVars>>

\* data = self._read_registers(_REG_DEVICE_STATUS, 6)
ConUpdateBurst(c) ==
    /\ cpc[c] = "u_burst"
    /\ nbursts < MaxBursts
    /\ \E v \in DeviceValidities :
        cdata' = [cdata EXCEPT ![c] = DeviceFrame(nbursts + 1, v)]
    /\ nbursts' = nbursts + 1
    /\ ConGoto(c, "u_validity")
    /\ UNCHANGED <<locking, sensor_lock, creading>>
    /\ UNCHANGED <<ensVars, ahtVars, funVars>>

\* The four assignments of update() to the fields of the instance, one a step.
ConUpdateAssign(c) ==
    /\ cpc[c] \in {"u_validity", "u_aqi", "u_tvoc", "u_eco2"}
    /\ _validity_flag' = IF cpc[c] = "u_validity" THEN ParseValidity(cdata[c])
                         ELSE _validity_flag
    /\ _aqi' = IF cpc[c] = "u_aqi" THEN ParseAqi(cdata[c]) ELSE _aqi
    /\ _tvoc' = IF cpc[c] = "u_tvoc" THEN ParseTvoc(cdata[c]) ELSE _tvoc
    /\ _eco2' = IF cpc[c] = "u_eco2" THEN ParseEco2(cdata[c]) ELSE _eco2
    /\ ConGoto(c, CASE cpc[c] = "u_validity" -> "u_aqi"
                    [] cpc[c] = "u_aqi" -> "u_tvoc"
                    [] cpc[c] = "u_tvoc" -> "u_eco2"
                    [] cpc[c] = "u_eco2" -> "u_check")
    /\ UNCHANGED <<inst, stack, regs, call, log, helper, result, entry>>
    /\ UNCHANGED <<locking, sensor_lock, cdata, creading, nbursts>>
    /\ UNCHANGED <<ahtVars, funVars>>

\* `if self._validity_flag == 3:` reads the field of the instance; otherwise
\* update() returns and the caller goes on to the properties.
ConUpdateCheck(c) ==
    /\ cpc[c] = "u_check"
    /\ ConGoto(c, IF NeedsRecovery(_validity_flag) THEN "r_reset" ELSE "p_aqi")
    /\ UNCHANGED <<locking, sensor_lock, cdata, creading, nbursts>>
    /\ UNCHANGED <<ensVars, ahtVars, funVars>>

\* The five register writes of reset(): Reset, Idle, temp-in, rh-in, Standard.
ConResetWrite(c) ==
    /\ cpc[c] \in {"r_reset", "r_idle", "r_temp", "r_rh", "r_std"}
    /\ ConGoto(c, CASE cpc[c] = "r_reset" -> "r_idle"
                    [] cpc[c] = "r_idle" -> "r_temp"
                    [] cpc[c] = "r_temp" -> "r_rh"
                    [] cpc[c] = "r_rh" -> "r_std"
                    [] cpc[c] = "r_std" -> "r_aqi")
    /\ UNCHANGED <<locking, sensor_lock, cdata, creading, nbursts>>
    /\ UNCHANGED <<ensVars, ahtVars, funVars>>

\* The four assignments at the end of reset(), in the order of the source,
\* and after the last the 200 ms sleep and the nested update().
ConResetAssign(c) ==
    /\ cpc[c] \in {"r_aqi", "r_tvoc", "r_eco2", "r_validity"}
    /\ _aqi' = IF cpc[c] = "r_aqi" THEN DefaultCache[2] ELSE _aqi
    /\ _tvoc' = IF cpc[c] = "r_tvoc" THEN DefaultCache[3] ELSE _tvoc
    /\ _eco2' = IF cpc[c] = "r_eco2" THEN DefaultCache[4] ELSE _eco2
    /\ _validity_flag' = IF cpc[c] = "r_validity" THEN DefaultCache[1]
                         ELSE _validity_flag
    /\ ConGoto(c, CASE cpc[c] = "r_aqi" -> "r_tvoc"
                    [] cpc[c] = "r_tvoc" -> "r_eco2"
                    [] cpc[c] = "r_eco2" -> "r_validity"
                    [] cpc[c] = "r_validity" -> "u_retry")
    /\ UNCHANGED <<inst, stack, regs, call, log, helper, result, entry>>
    /\ UNCHANGED <<locking, sensor_lock, cdata, creading, nbursts>>
    /\ UNCHANGED <<ahtVars, funVars>>

\* data = (ens.aqi, ens.tvoc, ens.eco2), then the validity behind ens.status.
ConReadProperty(c) ==
    /\ cpc[c] \in {"p_aqi", "p_tvoc", "p_eco2", "p_status"}
    /\ creading' = [creading EXCEPT ![c] =
            CASE cpc[c] = "p_aqi" -> [Unread EXCEPT ![2] = _aqi]
              [] cpc[c] = "p_tvoc" -> [@ EXCEPT ![3] = _tvoc]
              [] cpc[c] = "p_eco2" -> [@ EXCEPT ![4] = _eco2]
              [] cpc[c] = "p_status" -> [@ EXCEPT ![1] = _validity_flag]]
    /\ ConGoto(c, CASE cpc[c] = "p_aqi" -> "p_tvoc"
                    [] cpc[c] = "p_tvoc" -> "p_eco2"
                    [] cpc[c] = "p_eco2" -> "p_status"
                    [] cpc[c] = "p_status" -> "done")
    /\ UNCHANGED <<locking, sensor_lock, cdata, nbursts>>
    /\ UNCHANGED <<ensVars, ahtVars, funVars>>

\* The end of the `with` block: the lock is released and the locals dropped.
ConRelease(c) ==
    /\ cpc[c] = "done"
    /\ sensor_lock' = IF locking THEN 0 ELSE sensor_lock
    /\ cdata' = [cdata EXCEPT ![c] = <<>>]
    /\ creading' = [creading EXCEPT ![c] = Unread]
    /\ ConGoto(c, "idle")
    /\ UNCHANGED <<locking, nbursts>>
    /\ UNCHANGED <<ensVars, ahtVars, funVars>>

ConIdle ==
    /\ sensor_lock = 0
    /\ cpc = [c \in Contexts |-> "idle"]
    /\ cdata = [c \in Contexts |-> <<>>]
    /\ creading = [c \in Contexts |-> Unread]
    /\ nbursts = 0

ConInit == ConIdle /\ locking = TRUE

ConNext ==
    \E c \in Contexts :
        \/ ConAcquire(c) \/ ConUpdateStatus(c) \/ ConUpdateBurst(c)
        \/ ConUpdateAssign(c) \/ ConUpdateCheck(c)
        \/ ConResetWrite(c) \/ ConResetAssign(c)
        \/ ConReadProperty(c) \/ ConRelease(c)

-----------------------------------------------------------------------------
(* The pure functions of the AHT21 driver applied on their own: the caller *)
(* hands in an argument, the function returns its value.                   *)

FunInit ==
    /\ fname = "none"
    /\ fargs = <<>>
    /\ fvalue = <<>>

\* The caller takes the value.
FunReturn ==
    /\ fname # "none"
    /\ fname' = "none"
    /\ fargs' = <<>>
    /\ fvalue' = <<>>
    /\ UNCHANGED <<ensVars, ahtVars, conVars>>

\* Bytes the arguments of _calculate_crc8 are built from, and what may follow
\* the sixth byte.
CrcByteSamples == {0, 1, 128, 255}
CrcTails == {<<>>, <<0>>, <<255>>, <<78, 1>>}
\* Arguments of fewer than six bytes: 0xBEEF is the vector of the data sheets.
CrcShortInputs == {<<>>, <<0>>, <<255>>, <<190, 239>>, <<1, 2, 3, 4, 5>>}
CrcInputs ==
    CrcShortInputs \cup
    {SubSeq(f, 1, 6) \o t : f \in AhtFrames, t \in CrcTails} \cup
    {<<b[1], b[2], b[3], b[4], b[5], b[6]>> \o t :
        b \in [1..6 -> CrcByteSamples], t \in CrcTails}

\* self._calculate_crc8(data)
Crc8Call ==
    /\ fname = "none"
    /\ \E data \in CrcInputs :
        /\ fname' = "crc8"
        /\ fargs' = data
        /\ fvalue' = _calculate_crc8(data)
    /\ UNCHANGED <<ensVars, ahtVars, conVars>>

\* 20-bit raw values: the ends of the range, every single bit, mixed patterns.
RawSamples ==
    {0, 1048575, 74565, 703710, 349525, 699050} \cup {Pow2(k) : k \in 0..19}
\* The status byte data[0] and the checksum byte data[6] of the frames.
FrameStatusSamples == {0, 28, 255}

\* The six data bytes a sensor sends for raw humidity h and raw temperature t.
SensorFrame(status, h, t, crc) ==
    <<status, h \div 4096, (h \div 16) % 256, (h % 16) * 16 + t \div 65536,
      (t \div 256) % 256, t % 256, crc>>

\* Step 6 of read_temperature_humidity on its own: the two raw values of a frame.
DecodeCall ==
    /\ fname = "none"
    /\ \E status \in FrameStatusSamples, h \in RawSamples, t \in RawSamples :
        LET data == SensorFrame(status, h, t, 0) IN
        /\ fname' = "decode"
        /\ fargs' = data
        /\ fvalue' = <<RawHumidity(data), RawTemperature(data)>>
    /\ UNCHANGED <<ensVars, ahtVars, conVars>>

-----------------------------------------------------------------------------

Init == EnsInit /\ AhtInit /\ ConInit /\ FunInit

\* The gas-sensor driver and its caller.
Next == EnsNext
Spec == Init /\ [][Next]_vars

\* The humidity/temperature driver and its caller, the gas sensor asleep.
InitAHT == Init /\ regs[_REG_OPMODE] = _OPMODE_DEEP_SLEEP
SpecAHT == InitAHT /\ [][AhtNext]_vars

\* Two contexts on an ENS160 as a completed construction leaves it, with
\* callers that take the lock and callers that do not.
InitShared ==
    /\ inst = "ready"
    /\ stack = <<>>
    /\ _validity_flag = DefaultCache[1]
    /\ _aqi = DefaultCache[2]
    /\ _tvoc = DefaultCache[3]
    /\ _eco2 = DefaultCache[4]
    /\ regs = [a \in RegAddrs |->
                CASE a = _REG_OPMODE -> _OPMODE_STANDARD
                  [] a = _REG_COMMAND -> 0
                  [] a = _REG_TEMP_IN -> PackLE16(TempValue(2500))[1]
                  [] a = _REG_TEMP_IN + 1 -> PackLE16(TempValue(2500))[2]
                  [] a = _REG_RH_IN -> PackLE16(RhValue(5000))[1]
                  [] a = _REG_RH_IN + 1 -> PackLE16(RhValue(5000))[2]]
    /\ call = <<"none">>
    /\ log = <<>>
    /\ helper = <<>>
    /\ result = <<"none">>
    /\ entry = [cache |-> <<>>, regs |-> <<>>]
    /\ AhtInit
    /\ ConIdle
    /\ locking \in BOOLEAN
    /\ FunInit
SpecShared == InitShared /\ [][ConNext]_vars

\* _calculate_crc8 applied to every argument of CrcInputs.
NextCrc == Crc8Call \/ FunReturn
SpecCrc == InitAHT /\ [][NextCrc]_vars

\* The frame decoding applied to the frames of RawSamples x RawSamples.
NextDecode == DecodeCall \/ FunReturn
SpecDecode == InitAHT /\ [][NextDecode]_vars

-----------------------------------------------------------------------------
(* Reading the log of an operation.                                        *)

\* The entry at position i of a log, and the last one; <<"none">> where there is none.
Entry(l, i) == IF i \in 1..Len(l) THEN l[i] ELSE <<"none">>
Last(l) == Entry(l, Len(l))

\* The operation `name` has ended (returned or raised).
Ended(name) == call[1] = name /\ stack = <<>>
Returned(name, v) == Ended(name) /\ result = <<"return", v>>
Raised(name, cls) == Ended(name) /\ result = <<"raise", cls>>

\* A burst read of update(): attempted, and delivered.
IsBurstAttempt(e) == e[1] = "_read_registers" /\ e[2] = _REG_DEVICE_STATUS
IsBurst(e) == IsBurstAttempt(e) /\ e[4]
\* A status read of update() that delivered a byte.
IsStatusRead(e) == e[1] = "_read_register" /\ e[2] = _REG_DEVICE_STATUS /\ e[4]
\* A write of `mode` to the operating-mode register: attempted, and acknowledged.
IsModeWriteAttempt(e, mode) ==
    e[1] = "_write_register" /\ e[2] = _REG_OPMODE /\ e[3] = <<mode>>
IsModeWrite(e, mode) == IsModeWriteAttempt(e, mode) /\ e[4]
IsResetAttempt(e) == IsModeWriteAttempt(e, _OPMODE_RESET)
\* Any register write, attempted.
IsWriteAttempt(e) == e[1] \in {"_write_register", "_write_register_16"}

Bursts == SelectSeq(log, IsBurst)
BurstAttempts == SelectSeq(log, IsBurstAttempt)
ResetAttempts == SelectSeq(log, IsResetAttempt)
\* Validity bits 2-3 of the first byte of a delivered burst, read off the bytes.
ValidityOf(e) == (e[3][1] \div 4) % 4

-----------------------------------------------------------------------------
(* C1: within one update(), when the first burst read and the burst read   *)
(* of the post-recovery retry both report validity Error, update() makes   *)
(* exactly one device reset and two burst reads and returns false: there   *)
(* is never a second reset or a third burst read.                          *)
C1_ErrorTwiceIsBounded ==
    (call[1] = "update" /\ Len(Bursts) >= 2
        /\ ValidityOf(Bursts[1]) = 3 /\ ValidityOf(Bursts[2]) = 3)
    => /\ Len(ResetAttempts) <= 1
       /\ Len(BurstAttempts) <= 2

-----------------------------------------------------------------------------
(* C2: when the first burst read of an update() reports Error and the      *)
(* retry after the recovery reads a Normal frame, update() returns true,   *)
(* the cached reading is the one decoded from the second burst read, and   *)
(* the reset sequence and the 200 ms wait lie between the two burst reads. *)
C2_RecoveryReturnsFresh ==
    (call[1] = "update" /\ Len(Bursts) = 2
        /\ Bursts[1][3] = FrameError /\ Bursts[2][3] = FrameNormal)
    => LET i == CHOOSE k \in 1..Len(log) : IsBurst(log[k])
           j == Len(log)
           IsStep(e) == \/ IsModeWrite(e, _OPMODE_RESET)
                        \/ IsModeWrite(e, _OPMODE_IDLE)
                        \/ IsModeWrite(e, _OPMODE_STANDARD)
                        \/ e = Sleep(200)
                        \/ IsStatusRead(e)
       IN  /\ Returned("update", TRUE)
           /\ Cache = <<0, 1, 300, 400>>
           /\ log[i][3] = FrameError
           /\ IsBurst(log[j]) /\ log[j][3] = FrameNormal
           /\ \A k \in 1..(i - 1) : ~IsBurst(log[k])
           /\ SelectSeq(SubSeq(log, i + 1, j - 1), IsStep) =
                << <<"_write_register", _REG_OPMODE, <<_OPMODE_RESET>>, TRUE>>,
                   <<"_write_register", _REG_OPMODE, <<_OPMODE_IDLE>>, TRUE>>,
                   <<"_write_register", _REG_OPMODE, <<_OPMODE_STANDARD>>, TRUE>>,
                   Sleep(200),
                   <<"_read_register", _REG_DEVICE_STATUS, 2, TRUE>> >>

C2_Witness ==
    /\ Returned("update", TRUE)
    /\ Len(Bursts) = 2
    /\ Bursts[1][3] = FrameError
    /\ Bursts[2][3] = FrameNormal

-----------------------------------------------------------------------------
(* C3 as claimed: however get_firmware_version() ends, the operating-mode  *)
(* register holds Standard.                                                *)
C3_AlwaysStandard ==
    Ended("get_firmware_version") => regs[_REG_OPMODE] = _OPMODE_STANDARD

\* The restoring write of the finally clause is the last entry of the log.
RestoreAcknowledged == IsModeWrite(Entry(log, Len(log) - 1), _OPMODE_STANDARD)
RestoreFailed ==
    /\ IsModeWriteAttempt(Last(log), _OPMODE_STANDARD)
    /\ ~Last(log)[4]

(* C3, amended: get_firmware_version() always ends with the restoring      *)
(* write.  When that write is acknowledged (at once or on the helper's     *)
(* retry) the register holds Standard, whether the call returns a version  *)
(* or raises the failure of an earlier step; when it fails twice the call  *)
(* raises the communication failure and the register keeps the last mode   *)
(* acknowledged: Idle if the Idle write got through, else the mode on      *)
(* entry.                                                                  *)
C3_StandardWhenRestoreAcknowledged ==
    Ended("get_firmware_version") =>
        /\ RestoreAcknowledged \/ RestoreFailed
        /\ RestoreAcknowledged => regs[_REG_OPMODE] = _OPMODE_STANDARD
        /\ RestoreFailed =>
            /\ result = <<"raise", "ENS160CommunicationError">>
            /\ regs[_REG_OPMODE] = IF IsModeWrite(Entry(log, 1), _OPMODE_IDLE)
                                   THEN _OPMODE_IDLE ELSE entry.regs[_REG_OPMODE]

\* A transport failure in the middle of the sequence, and Standard restored.
C3_Witness ==
    /\ Raised("get_firmware_version", "ENS160CommunicationError")
    /\ Len(log) >= 5
    /\ ~log[Len(log) - 2][4]
    /\ RestoreAcknowledged
    /\ regs[_REG_OPMODE] = _OPMODE_STANDARD

-----------------------------------------------------------------------------
(* C4: construction ends with ENS160InitError both when the part id read   *)
(* back is not 0x0160 and when the part-id read fails on the bus, and in   *)
(* neither case has a register been written.                               *)
C4_InitFailureKind ==
    (Ended("__init__") /\ Len(log) = 1)
    => /\ result = <<"raise", "ENS160InitError">>
       /\ \A i \in 1..Len(log) : ~IsWriteAttempt(log[i])
       /\ regs = entry.regs

-----------------------------------------------------------------------------
(* C9 as claimed: an update() that returns, returns true exactly when the  *)
(* cached validity flag is Normal.                                         *)
C9_TrueIffCachedNormal ==
    (Ended("update") /\ result[1] = "return")
    => (result[2] = TRUE <=> _validity_flag = 0)

(* C9, amended: an update() that returns, returns true exactly when its    *)
(* last status read saw the new-data bit set and the burst read that       *)
(* followed left the cached validity flag Normal; when the new-data bit is *)
(* clear it returns false whatever the cached validity.                    *)
C9_TrueIffFreshNormal ==
    (Ended("update") /\ result[1] = "return")
    => /\ result[2] \in BOOLEAN
       /\ result[2] = TRUE <=> (IsBurst(Last(log)) /\ _validity_flag = 0)
       /\ IsStatusRead(Last(log)) => result[2] = FALSE

\* The no-new-data path with a Normal reading cached by an earlier update().
C9_Witness ==
    /\ Returned("update", FALSE)
    /\ Len(log) = 1
    /\ _validity_flag = 0

-----------------------------------------------------------------------------
(* C10: the cached reading changes only in the burst-read step of an       *)
(* update() whose status read saw bit 1 set, and at the end of reset().    *)
(* An update() whose status read sees the bit clear returns false without  *)
(* a burst read and with the cache as on entry; set_compensation,          *)
(* get_firmware_version, get_raw_resistance and the property reads keep    *)
(* the cache, and a property read touches neither the bus nor a register.  *)
C10_CacheFrame ==
    /\ [][Cache' # Cache =>
            \/ /\ At("update", "burst")
               /\ IsStatusRead(Last(log))
               /\ (Last(log)[3] \div 2) % 2 = 1
               /\ IsBurst(log'[Len(log')])
            \/ /\ At("reset", "std")
               /\ IsModeWrite(log'[Len(log) + 1], _OPMODE_STANDARD)
               /\ Cache' = DefaultCache]_vars
    /\ []((call[1] = "update" /\ Len(log) >= 1 /\ IsStatusRead(log[1])
            /\ (log[1][3] \div 2) % 2 = 0)
          => /\ Returned("update", FALSE)
             /\ Len(log) = 1
             /\ Cache = entry.cache)
    /\ [](call[1] \in {"set_compensation", "get_firmware_version",
                       "get_raw_resistance"} \cup Properties
          => Cache = entry.cache)
    /\ [](call[1] \in Properties
          => /\ log = <<>> /\ helper = <<>> /\ regs = entry.regs
             /\ stack = <<>> /\ result[1] = "return")

\* An update() that saw the new-data bit clear while a reading was cached.
C10_Witness ==
    /\ Returned("update", FALSE)
    /\ Len(log) = 1
    /\ (log[1][3] \div 2) % 2 = 0
    /\ Cache = <<0, 1, 300, 400>>

-----------------------------------------------------------------------------
(* Reading the log of an AHT21 operation.                                  *)

AhtEnded(name) == acall[1] = name /\ apc = "ended"
IsStatusCommand(e) == e[1] = "writeto" /\ e[2] = <<113>>
IsInitCommand(e) == e[1] = "writeto" /\ e[2] = <<190, 8, 0>>
IsTrigger(e) == e[1] = "writeto" /\ e[2] = <<172, 51, 0>>
\* A status byte delivered to a calibration check, and whether bits 3 and 4 are set.
IsStatusByte(e) == e[1] = "readfrom" /\ e[2] = 1 /\ e[4]
BothCalibrationBits(e) == (e[3][1] \div 8) % 4 = 3
IsCalibratedCheck(e) == IsStatusByte(e) /\ BothCalibrationBits(e)
IsFailedCheck(e) == IsStatusByte(e) /\ ~BothCalibrationBits(e)
\* A seven-byte frame delivered.
IsFrame(e) == e[1] = "readfrom" /\ e[2] = 7 /\ e[4]
\* A CRC or timeout failure of an attempt.
IsFailure(e) == e[1] = "raise"
IsRetryDelay(e) == e = Sleep(50)
\* A bus transaction that failed.
IsBusFailure(e) == e[1] \in {"writeto", "readfrom"} /\ ~e[Len(e)]

Count(l, P(_)) == Len(SelectSeq(l, P))

\* The frames whose seventh byte is the CRC-8 (polynomial 0x31, initial value
\* 0xFF) of the first six, and the measurement each encodes.
GoodFrames == {AhtFrameA, AhtFrameB}
Decoded(frame) ==
    IF frame = AhtFrameA THEN <<25 * 1048576, 50 * 1048576>>
    ELSE <<32389200, 7456500>>

-----------------------------------------------------------------------------
(* C5 as claimed: construction makes at most 3 status checks, succeeds     *)
(* exactly when one of them reads both calibration bits set, sends one     *)
(* initialize command after each failed check and none after a successful  *)
(* one, ends with AHT21CalibrationError when all 3 checks fail, and a      *)
(* failed construction leaves no instance to read a measurement from.      *)
C5_CalibrationFailureAfterThree ==
    /\ acall[1] = "__init__" =>
        /\ Count(alog, IsStatusCommand) <= 3
        /\ AhtEnded("__init__") =>
            /\ aresult[1] = "return" <=> (\E i \in 1..Len(alog) : IsCalibratedCheck(alog[i]))
            /\ Count(alog, IsInitCommand) = Count(alog, IsFailedCheck)
            /\ Count(alog, IsFailedCheck) = 3 => aresult = <<"raise", "AHT21CalibrationError">>
            /\ aresult[1] = "raise" => aht = "none"
    /\ aht = "none" => acall[1] # "read_temperature_humidity"

(* C5, amended: as claimed, except that when all 3 checks fail the         *)
(* construction ends with AHT21CalibrationError only if the third          *)
(* initialize command is acknowledged too; any failed bus transaction ends *)
(* the construction at once with that transport failure (OSError).  After  *)
(* either failure no instance exists.                                      *)
C5_CalibrationFailureUnlessBusFails ==
    /\ acall[1] = "__init__" =>
        /\ Count(alog, IsStatusCommand) <= 3
        /\ \A i \in 1..Len(alog) :
            /\ IsFailedCheck(alog[i]) =>
                IF i = Len(alog) THEN apc = "initialize" ELSE IsInitCommand(alog[i + 1])
            /\ IsCalibratedCheck(alog[i]) => i = Len(alog)
            /\ IsInitCommand(alog[i]) => IsFailedCheck(alog[i - 1])
            /\ IsBusFailure(alog[i]) => i = Len(alog)
        /\ AhtEnded("__init__") =>
            /\ aresult[1] = "return" <=> IsCalibratedCheck(Last(alog))
            /\ aresult = <<"raise", "AHT21CalibrationError">>
                <=> (Count(alog, IsFailedCheck) = 3 /\ ~IsBusFailure(Last(alog)))
            /\ aresult = <<"raise", "OSError">> <=> IsBusFailure(Last(alog))
            /\ aresult[1] = "raise" => aht = "none"
    /\ aht = "none" => acall[1] # "read_temperature_humidity"

\* Three failed checks, three initialize commands, the calibration failure.
C5_Witness ==
    /\ AhtEnded("__init__")
    /\ Count(alog, IsFailedCheck) = 3
    /\ Count(alog, IsInitCommand) = 3
    /\ aresult = <<"raise", "AHT21CalibrationError">>
    /\ aht = "none"

-----------------------------------------------------------------------------
(* C6: read_temperature_humidity(retries = n), n >= 1.  When it returns    *)
(* after k - 1 attempts failed with a CRC mismatch or a busy timeout, it   *)
(* has sent exactly k <= n trigger commands and slept k - 1 times 50 ms,   *)
(* and the value is decoded from the frame of attempt k.  When it raises   *)
(* a CRC or timeout failure, all n attempts failed, that failure is the    *)
(* one of attempt n, exactly n triggers were sent and n - 1 delays slept,  *)
(* none after the last attempt.                                            *)
C6_RetryBudget ==
    (acall[1] = "read_temperature_humidity" /\ acall[2] >= 1) =>
        LET n == acall[2]
            k == Count(alog, IsTrigger)
            failures == SelectSeq(alog, IsFailure)
        IN  /\ k <= n
            /\ (AhtEnded("read_temperature_humidity") /\ aresult[1] = "return") =>
                /\ IsFrame(Last(alog))
                /\ Last(alog)[3] \in GoodFrames
                /\ aresult[2] = Decoded(Last(alog)[3])
                /\ Len(failures) = k - 1
                /\ Count(alog, IsRetryDelay) = k - 1
            /\ (AhtEnded("read_temperature_humidity")
                    /\ aresult \in {<<"raise", "AHT21CRCError">>,
                                    <<"raise", "AHT21TimeoutError">>}) =>
                /\ k = n
                /\ Len(failures) = n
                /\ Count(alog, IsRetryDelay) = n - 1
                /\ Last(alog) = aresult

\* CRC mismatches on the first two attempts and a valid frame on the third.
C6_Witness ==
    /\ AhtEnded("read_temperature_humidity")
    /\ acall[2] = 3
    /\ aresult[1] = "return"
    /\ SelectSeq(alog, IsFailure) = << <<"raise", "AHT21CRCError">>,
                                       <<"raise", "AHT21CRCError">> >>
    /\ Count(alog, IsTrigger) = 3

-----------------------------------------------------------------------------
\* The state right after an attempt ended with the busy timeout.
TimeoutJustRaised ==
    /\ acall[1] = "read_temperature_humidity"
    /\ \/ apc = "ended" /\ Last(alog) = <<"raise", "AHT21TimeoutError">>
       \/ apc = "trigger" /\ Len(alog) >= 2
            /\ Entry(alog, Len(alog) - 1) = <<"raise", "AHT21TimeoutError">>

(* C7: within an attempt the busy flag is polled 5 ms after the previous   *)
(* poll; the attempt times out only when every poll read busy and more     *)
(* than 150 ms have passed since polling began, and a poll begun past      *)
(* 150 ms that reads busy does time out, so polling ends within 150 ms     *)
(* plus one interval and one poll;                                         *)
(* a poll that reads the flag clear leads to the frame read, never to a    *)
(* timeout.                                                                *)
C7_BusyTimeout ==
    /\ [][(apc = "poll" /\ apc' = "poll") =>
            /\ polls' = polls + 1
            /\ busy' = busy + 1
            /\ elapsed' - elapsed >= 5
            /\ elapsed' - elapsed <= 5 + MaxPollMs]_vars
    /\ [](TimeoutJustRaised =>
            /\ busy = polls
            /\ elapsed > 150
            /\ elapsed <= 150 + 5 + MaxPollMs)
    /\ [](apc = "poll" => (busy = polls /\ elapsed <= 150 + 5 /\ polls <= 31))
    /\ [][(apc = "poll" /\ elapsed > 150 /\ busy' = busy + 1) =>
            (TimeoutJustRaised)']_vars
    /\ [][(apc = "poll" /\ polls' = polls + 1 /\ busy' = busy) =>
            (apc' = "read" /\ alog' = alog /\ aresult' = aresult)]_vars

\* The last attempt of a sensor that stayed busy.
C7_Witness ==
    /\ AhtEnded("read_temperature_humidity")
    /\ aresult = <<"raise", "AHT21TimeoutError">>
    /\ Count(alog, IsFailure) = acall[2]
    /\ \A i \in 1..Len(alog) : IsFailure(alog[i]) => alog[i] = <<"raise", "AHT21TimeoutError">>
    /\ elapsed > 150
    /\ busy = polls

-----------------------------------------------------------------------------
(* C8: a measurement is returned only from a frame whose seventh byte is   *)
(* the CRC-8 of its first six, and every frame delivered with another      *)
(* seventh byte ends its attempt with AHT21CRCError.                       *)
C8_NoCorruptFrameAccepted ==
    acall[1] = "read_temperature_humidity" =>
        /\ \A i \in 1..Len(alog) :
            (IsFrame(alog[i]) /\ alog[i][3] \notin GoodFrames) =>
                /\ i < Len(alog)
                /\ alog[i + 1] = <<"raise", "AHT21CRCError">>
        /\ (aresult[1] = "return" /\ aresult[2] # "None") =>
            /\ IsFrame(Last(alog))
            /\ Last(alog)[3] \in GoodFrames
            /\ aresult[2] = Decoded(Last(alog)[3])
        /\ \A i \in 1..Len(alog) :
            (IsFrame(alog[i]) /\ alog[i][3] \in GoodFrames) => i = Len(alog)

\* A frame with a flipped data bit was rejected and the last attempt's too.
C8_Witness ==
    /\ AhtEnded("read_temperature_humidity")
    /\ aresult = <<"raise", "AHT21CRCError">>
    /\ IsFrame(alog[Len(alog) - 1])
    /\ alog[Len(alog) - 1][3] = AhtFrameFlipped
    /\ \E i \in 1..Len(alog) : IsFrame(alog[i]) /\ alog[i][3] = AhtFrameBadCrc

-----------------------------------------------------------------------------
(* C11 as claimed: a burst read of update() that decodes Error is followed *)
(* by a device reset before update() ends, and whenever update() has       *)
(* returned the cached validity flag and the status property are not       *)
(* Error.                                                                  *)
C11_ErrorNeverSurfaced ==
    /\ call[1] = "update" =>
        \A i \in 1..Len(log) :
            (IsBurst(log[i]) /\ ValidityOf(log[i]) = 3) =>
                IF i = Len(log) THEN At("reset", "reset")
                ELSE IsResetAttempt(log[i + 1])
    /\ (Ended("update") /\ result[1] = "return") =>
        /\ _validity_flag # 3
        /\ StatusMap(_validity_flag) # "Error"

(* C11, amended: a burst read of update() that decodes Error is followed   *)
(* at once by the reset write of the recovery; an update() that returns    *)
(* after a burst read of its own leaves a cached validity other than       *)
(* Error; an update() that returns without a burst read leaves the cached  *)
(* validity as it found it; and the cached validity is Error when update() *)
(* has ended only if it was so on entry and no burst was read, or if the   *)
(* call ended with the communication failure of its recovery.              *)
C11_ErrorOnlyAfterFailedRecovery ==
    /\ call[1] = "update" =>
        \A i \in 1..Len(log) :
            (IsBurst(log[i]) /\ ValidityOf(log[i]) = 3) =>
                IF i = Len(log) THEN At("reset", "reset")
                ELSE IsResetAttempt(log[i + 1])
    /\ (Ended("update") /\ result[1] = "return" /\ Len(Bursts) > 0) =>
        /\ _validity_flag # 3
        /\ StatusMap(_validity_flag) # "Error"
    /\ (Ended("update") /\ result[1] = "return" /\ Len(Bursts) = 0) =>
        _validity_flag = entry.cache[1]
    /\ (Ended("update") /\ _validity_flag = 3) =>
        \/ entry.cache[1] = 3 /\ Len(Bursts) = 0
        \/ /\ result = <<"raise", "ENS160CommunicationError">>
           /\ Len(Bursts) > 0
           /\ ValidityOf(Bursts[Len(Bursts)]) = 3

\* An update() that decoded Error, recovered and returned a later reading.
C11_Witness ==
    /\ Ended("update")
    /\ result[1] = "return"
    /\ Len(Bursts) = 2
    /\ ValidityOf(Bursts[1]) = 3
    /\ Len(ResetAttempts) = 1
    /\ _validity_flag = 2

-----------------------------------------------------------------------------
\* The writes to the operating-mode register an operation has attempted.
IsAnyModeWriteAttempt(e) == e[1] = "_write_register" /\ e[2] = _REG_OPMODE
ModeWriteAttempts == SelectSeq(log, IsAnyModeWriteAttempt)

(* C12: a construction that returns leaves Standard as the last value      *)
(* written to the operating-mode register, and every public operation      *)
(* that begins with Standard in that register and returns without failure  *)
(* ends with Standard in it: its last mode write, if it made any, is an    *)
(* acknowledged write of Standard.  By induction over the operations, the  *)
(* register holds Standard between public operations as long as none has   *)
(* failed.                                                                 *)
C12_StandardBetweenOperations ==
    /\ (Ended("__init__") /\ result[1] = "return") =>
        /\ inst = "ready"
        /\ regs[_REG_OPMODE] = _OPMODE_STANDARD
        /\ IsModeWrite(Last(ModeWriteAttempts), _OPMODE_STANDARD)
    /\ (call[1] \notin {"none", "__init__"} /\ stack = <<>> /\ result[1] = "return"
            /\ entry.regs[_REG_OPMODE] = _OPMODE_STANDARD) =>
        /\ regs[_REG_OPMODE] = _OPMODE_STANDARD
        /\ ModeWriteAttempts # <<>> =>
                IsModeWrite(Last(ModeWriteAttempts), _OPMODE_STANDARD)

\* get_firmware_version() went through Idle and returned a version.
C12_Witness ==
    /\ Ended("get_firmware_version")
    /\ result[1] = "return"
    /\ entry.regs[_REG_OPMODE] = _OPMODE_STANDARD
    /\ IsModeWrite(Entry(log, 1), _OPMODE_IDLE)
    /\ regs[_REG_OPMODE] = _OPMODE_STANDARD

-----------------------------------------------------------------------------
\* The two compensation writes of a set_compensation call, as logged.
IsTempWrite(e) == e[1] = "_write_register_16" /\ e[2] = _REG_TEMP_IN
IsRhWrite(e) == e[1] = "_write_register_16" /\ e[2] = _REG_RH_IN

\* The register values the claim names for its inputs: <<temp_in, rh_in>>.
ClaimedEncoding(t, rh) ==
    CASE <<t, rh>> = <<2500, 5000>> -> <<19081, 25600>>
      [] <<t, rh>> \in {<<-5000, -1000>>, <<-4000, 0>>} -> <<14921, 0>>
      [] <<t, rh>> \in {<<9000, 12000>>, <<8500, 10000>>} -> <<22921, 51200>>
      [] OTHER -> <<TempValue(t), RhValue(rh)>>

(* C13: set_compensation clips before it encodes.  (25.0, 50.0) writes     *)
(* temp_in = 19081 and rh_in = 25600; (-50, -10) writes what (-40, 0)      *)
(* writes, namely 14921 and 0; (90, 120) writes what (85, 100) writes,     *)
(* namely 22921 and 51200; and for every input the two values lie in       *)
(* 0..65535 and are the 16-bit values put on the bus and, once             *)
(* acknowledged, held by the registers.                                    *)
C13_ClipBeforeEncode ==
    call[1] = "set_compensation" =>
        LET want == ClaimedEncoding(call[2], call[3]) IN
        /\ want[1] \in 0..65535 /\ want[2] \in 0..65535
        /\ TempValue(call[2]) \in 0..65535 /\ RhValue(call[3]) \in 0..65535
        /\ Len(log) >= 1 =>
            /\ IsTempWrite(log[1])
            /\ UnpackLE16(log[1][3]) = want[1]
            /\ log[1][4] => <<regs[_REG_TEMP_IN], regs[_REG_TEMP_IN + 1]>> = log[1][3]
        /\ Len(log) >= 2 =>
            /\ IsRhWrite(log[2])
            /\ UnpackLE16(log[2][3]) = want[2]
            /\ log[2][4] => <<regs[_REG_RH_IN], regs[_REG_RH_IN + 1]>> = log[2][3]
        /\ Len(log) <= 2

\* set_compensation(-50, -10) completed with the values of (-40, 0) written.
C13_Witness ==
    /\ call = <<"set_compensation", -5000, -1000>>
    /\ Returned("set_compensation", "None")
    /\ regs[_REG_TEMP_IN] + 256 * regs[_REG_TEMP_IN + 1] = 14921
    /\ regs[_REG_RH_IN] + 256 * regs[_REG_RH_IN + 1] = 0

-----------------------------------------------------------------------------
\* The clipped inputs of the set_compensation call, in hundredths, and the
\* exact products (temp_c + 273.15) * 64 and humidity_pct * 512 in hundredths.
ClippedTemp == IF call[2] < -4000 THEN -4000 ELSE IF call[2] > 8500 THEN 8500 ELSE call[2]
ClippedRh == IF call[3] < 0 THEN 0 ELSE IF call[3] > 10000 THEN 10000 ELSE call[3]
ExactTemp == (ClippedTemp + 27315) * 64
ExactRh == ClippedRh * 512
\* v is x/100 rounded to the nearest integer; v is x/100 with the fraction dropped.
IsNearest(v, x) == 2 * (100 * v - x) <= 100 /\ 2 * (x - 100 * v) <= 100
IsTruncated(v, x) == 100 * v <= x /\ x < 100 * (v + 1)

(* C14 as claimed: set_compensation writes (temp_c + 273.15) * 64 and      *)
(* humidity_pct * 512 of the clipped inputs, each rounded to the nearest    *)
(* integer, as 16-bit little-endian values to 0x13 and then to 0x15.        *)
C14_RoundedEncoding ==
    call[1] = "set_compensation" =>
        /\ Len(log) >= 1 =>
            /\ log[1][1] = "_write_register_16" /\ log[1][2] = 19
            /\ IsNearest(log[1][3][1] + 256 * log[1][3][2], ExactTemp)
        /\ Len(log) >= 2 =>
            /\ log[2][1] = "_write_register_16" /\ log[2][2] = 21
            /\ IsNearest(log[2][3][1] + 256 * log[2][3][2], ExactRh)

(* C14, amended: set_compensation writes (temp_c + 273.15) * 64 and        *)
(* humidity_pct * 512 of the clipped inputs, each with its fractional part *)
(* dropped (not rounded to the nearest integer), as 16-bit little-endian   *)
(* values, low byte first, to 0x13 and then to 0x15; the second write      *)
(* happens only when the first was acknowledged.                           *)
C14_TruncatedEncoding ==
    call[1] = "set_compensation" =>
        /\ Len(log) >= 1 =>
            /\ log[1][1] = "_write_register_16" /\ log[1][2] = 19
            /\ Len(log[1][3]) = 2
            /\ log[1][3][1] \in 0..255 /\ log[1][3][2] \in 0..255
            /\ IsTruncated(log[1][3][1] + 256 * log[1][3][2], ExactTemp)
        /\ Len(log) >= 2 =>
            /\ log[1][4]
            /\ log[2][1] = "_write_register_16" /\ log[2][2] = 21
            /\ Len(log[2][3]) = 2
            /\ log[2][3][1] \in 0..255 /\ log[2][3][2] \in 0..255
            /\ IsTruncated(log[2][3][1] + 256 * log[2][3][2], ExactRh)
        /\ (stack = <<>> /\ result[1] = "return") => Len(log) = 2

\* set_compensation(21.5, 40.3): 18857.6 and 20633.6 written as 18857, 20633.
C14_Witness ==
    /\ call = <<"set_compensation", 2150, 4030>>
    /\ Returned("set_compensation", "None")
    /\ log[1][3] = <<169, 73>>
    /\ log[2][3] = <<153, 80>>

-----------------------------------------------------------------------------
\* The helper invocations of a log, without the sleeps between them.
IsHelperCall(e) == e[1] # "sleep_ms"
HelperCalls == SelectSeq(log, IsHelperCall)
\* The same invocation, whether or not the bus acknowledged it.
SameCall(e, f) == e[1] = f[1] /\ e[2] = f[2] /\ e[3] = f[3]

\* The reset cycle: Reset, Idle, compensation for (25 C, 50 %RH), Standard.
ResetCycle ==
    << <<"_write_register", 16, <<240>>, TRUE>>,
       <<"_write_register", 16, <<1>>, TRUE>>,
       <<"_write_register_16", 19, <<137, 74>>, TRUE>>,
       <<"_write_register_16", 21, <<0, 100>>, TRUE>>,
       <<"_write_register", 16, <<2>>, TRUE>> >>

(* C15: reset() issues its writes in the order Reset, Idle, temp-in and    *)
(* rh-in with the encoding of (25 C, 50 %RH), Standard, each only after    *)
(* the one before was acknowledged; a reset() that completes has made      *)
(* exactly these five writes, with the 20 ms and 10 ms settle times, and   *)
(* leaves the cached reading at {WarmUp, 0, 0, 400}; the cached reading is *)
(* as on entry while reset() is under way and when a transport failure     *)
(* ends it early.                                                          *)
C15_ResetOrderThenCache ==
    call[1] = "reset" =>
        /\ Len(HelperCalls) <= 5
        /\ \A i \in 1..Len(HelperCalls) :
            /\ SameCall(HelperCalls[i], ResetCycle[i])
            /\ i < Len(HelperCalls) => HelperCalls[i][4]
        /\ stack # <<>> => Cache = entry.cache
        /\ result[1] = "raise" =>
            /\ result[2] = "ENS160CommunicationError"
            /\ ~Last(HelperCalls)[4]
            /\ Cache = entry.cache
        /\ result[1] = "return" =>
            /\ log = << ResetCycle[1], Sleep(20), ResetCycle[2], Sleep(10),
                        ResetCycle[3], ResetCycle[4], ResetCycle[5], Sleep(10) >>
            /\ Cache = <<1, 0, 0, 400>>
            /\ regs[16] = 2

\* A completed reset() that replaced a cached Normal reading.
C15_Witness ==
    /\ Returned("reset", "None")
    /\ entry.cache = <<0, 1, 300, 400>>
    /\ Cache = <<1, 0, 0, 400>>
    /\ Len(HelperCalls) = 5

-----------------------------------------------------------------------------
(* C16: get_raw_resistance with an index other than 1 or 4 ends with       *)
(* ValueError before any bus transaction, with registers and cached        *)
(* reading untouched.  With index 1 or 4 it makes one helper read of 8     *)
(* bytes at 0x48 and no write; when the read is delivered it returns byte  *)
(* 0 + 256 * byte 1 for index 1 and byte 6 + 256 * byte 7 for index 4.     *)
C16_RawResistance ==
    call[1] = "get_raw_resistance" =>
        /\ Cache = entry.cache
        /\ regs = entry.regs
        /\ \A k \in 1..Len(helper) : helper[k][1] \in {"readfrom_mem", "sleep_ms"}
        /\ call[2] \notin {1, 4} =>
            /\ stack = <<>>
            /\ result = <<"raise", "ValueError">>
            /\ log = <<>>
            /\ helper = <<>>
        /\ call[2] \in {1, 4} =>
            /\ Len(log) <= 1
            /\ result[1] = "raise" => result[2] = "ENS160CommunicationError"
            /\ Len(log) = 1 =>
                /\ log[1][1] = "_read_registers" /\ log[1][2] = 72
                /\ stack = <<>>
                /\ \A k \in 1..Len(helper) :
                    helper[k][1] = "readfrom_mem" => helper[k][2] = 72 /\ helper[k][3] = 8
                /\ log[1][4] <=> result[1] = "return"
            /\ result[1] = "return" =>
                /\ Len(log) = 1
                /\ Len(log[1][3]) = 8
                /\ call[2] = 1 => result[2] = log[1][3][1] + 256 * log[1][3][2]
                /\ call[2] = 4 => result[2] = log[1][3][7] + 256 * log[1][3][8]

\* Index 4 answered from bytes 6-7 (0x03, 0x80) of the block.
C16_Witness ==
    /\ call = <<"get_raw_resistance", 4>>
    /\ Returned("get_raw_resistance", 32771)
    /\ log[1][3] = <<52, 18, 0, 0, 1, 2, 3, 128>>

-----------------------------------------------------------------------------
(* C17: in read_temperature_humidity a bus transaction that fails (the     *)
(* trigger write, the write or the read of a status poll, the 7-byte read) *)
(* ends the call at once with OSError, whatever is left of the retry       *)
(* budget: the failed transaction is the last entry of the log, so no      *)
(* trigger, poll or inter-retry delay follows it, and the triggers and     *)
(* delays made are those of the attempts up to this one.  OSError is the   *)
(* outcome only in this case.                                              *)
C17_TransportFailurePropagates ==
    acall[1] = "read_temperature_humidity" =>
        /\ \A i \in 1..Len(alog) :
            IsBusFailure(alog[i]) =>
                /\ i = Len(alog)
                /\ apc = "ended"
                /\ aresult = <<"raise", "OSError">>
                /\ attempt < acall[2]
                /\ Count(alog, IsTrigger) = attempt + 1
                /\ Count(alog, IsRetryDelay) = attempt
        /\ aresult = <<"raise", "OSError">> => IsBusFailure(Last(alog))

\* The 7-byte read of the first of three attempts fails on the bus.
C17_Witness ==
    /\ acall = <<"read_temperature_humidity", 3>>
    /\ apc = "ended"
    /\ aresult = <<"raise", "OSError">>
    /\ attempt = 0
    /\ Last(alog) = <<"readfrom", 7, <<>>, FALSE>>

-----------------------------------------------------------------------------
\* The readings that consist of the fields of one burst read, or of the default.
WholeReadings ==
    {<<1, 0, 0, 400>>} \cup
    {<<v, k, k, 400 + k>> : v \in DeviceValidities, k \in 1..MaxBursts}
\* A context has collected a reading whose fields do not belong together.
TornReading(c) == cpc[c] = "done" /\ creading[c] \notin WholeReadings
\* A context is inside update(): it has made a bus transaction and may make more.
InsideUpdate(c) ==
    cpc[c] \in {"u_burst", "u_validity", "u_aqi", "u_tvoc", "u_eco2", "u_check",
                "r_reset", "r_idle", "r_temp", "r_rh", "r_std",
                "r_aqi", "r_tvoc", "r_eco2", "r_validity", "u_retry"}
\* A context makes a bus transaction in this step.
BusStep(c) == cpc[c] \in BusPcs /\ cpc'[c] # cpc[c]

(* C18: when both contexts wrap update() and the property reads in the     *)
(* lock, every reading a context collects consists of the four fields of   *)
(* one burst read or of the WarmUp default, at most one context is at work *)
(* on the instance, and no context makes a bus transaction while the other *)
(* is inside its update().  Without the lock the state described by       *)
(* C18_TornWithoutLock is reachable.                                       *)
C18_SafeUnderLock ==
    /\ [](locking => \A c \in Contexts : ~TornReading(c))
    /\ [](locking => \A c, d \in Contexts :
                (c # d /\ cpc[c] # "idle") => cpc[d] = "idle")
    /\ [][locking => \A c, d \in Contexts :
                (c # d /\ InsideUpdate(c)) => ~BusStep(d)]_vars

\* Without the lock: a context has collected fields that do not come from one
\* burst read (nor all from the default) while the other context is in the
\* middle of its update().
C18_TornWithoutLock ==
    /\ ~locking
    /\ \E c, d \in Contexts :
        /\ c # d
        /\ TornReading(c)
        /\ creading[c][2] # creading[c][3]
        /\ InsideUpdate(d)

\* With the lock: a context holds a complete reading of the second burst read.
C18_Witness ==
    /\ locking
    /\ \E c \in Contexts :
        /\ cpc[c] = "done"
        /\ creading[c] = <<0, 2, 2, 402>>

-----------------------------------------------------------------------------
\* The bus transactions among the entries of `helper`, without the sleep.
IsBusCall(e) == e[1] \in {"readfrom_mem", "writeto_mem"}
BusCalls == SelectSeq(helper, IsBusCall)

(* C19: one invocation of a register helper makes one bus transaction, or  *)
(* two when the first failed, with a 10 ms sleep between them and the      *)
(* second the same transaction as the first.  It succeeds exactly when its *)
(* last transaction succeeded, which is the first that did: a read helper  *)
(* then returns what that transaction delivered (_read_register its one    *)
(* byte) and a write helper has put its data on the bus.  When both        *)
(* transactions fail the helper raises ENS160CommunicationError, which     *)
(* ends the operation or, in get_firmware_version, waits for the finally   *)
(* clause.                                                                 *)
C19_HelperRetriesOnce ==
    helper # <<>> =>
        LET e == Last(HelperCalls)
            first == helper[1]
            last == helper[Len(helper)]
        IN
        /\ Len(BusCalls) \in {1, 2}
        /\ Len(BusCalls) = 1 => helper = <<first>> /\ first[4]
        /\ Len(BusCalls) = 2 =>
            /\ ~first[4]
            /\ helper = <<first, <<"sleep_ms", 10>>, last>>
            /\ last[1] = first[1] /\ last[2] = first[2] /\ last[3] = first[3]
        /\ e[4] <=> last[4]
        /\ e[2] = first[2]
        /\ e[1] \in {"_read_register", "_read_registers"} =>
            /\ first[1] = "readfrom_mem"
            /\ e[1] = "_read_register" => first[3] = 1
            /\ e[4] => e[3] = IF e[1] = "_read_register" THEN last[5][1] ELSE last[5]
            /\ e[4] => Len(last[5]) = first[3]
        /\ e[1] \in {"_write_register", "_write_register_16"} =>
            /\ first[1] = "writeto_mem"
            /\ e[3] = first[3]
            /\ Len(first[3]) = IF e[1] = "_write_register" THEN 1 ELSE 2
        /\ ~e[4] =>
            \/ result = <<"raise", "ENS160CommunicationError">>
            \/ /\ At("get_firmware_version", "finally")
               /\ Top.arg = <<"raise", "ENS160CommunicationError">>

\* A status read that failed once and delivered its byte on the retry.
C19_Witness ==
    /\ call[1] = "update"
    /\ helper = << <<"readfrom_mem", 32, 1, FALSE, <<>> >>, <<"sleep_ms", 10>>,
                   <<"readfrom_mem", 32, 1, TRUE, <<2>> >> >>
    /\ Last(HelperCalls) = <<"_read_register", 32, 2, TRUE>>

-----------------------------------------------------------------------------
\* The bus sequence of a construction: the part-id read, then the reset cycle.
ConstructionSequence ==
    << <<"_read_registers", 0, <<96, 1>>, TRUE>> >> \o ResetCycle

(* C20: a construction issues its helper calls in the order part-id read   *)
(* (2 bytes at 0x00), Reset, Idle, temp-in and rh-in with the encoding of  *)
(* (25 C, 50 %RH), Standard, each only after the one before succeeded.  A  *)
(* construction that returns has made exactly these six calls with the     *)
(* 20 ms and 10 ms settle times, the instance then exists with the cached  *)
(* reading {WarmUp, 0, 0, 400}, and no burst read has been made.           *)
C20_ConstructionOrder ==
    call[1] = "__init__" =>
        /\ Len(HelperCalls) <= 6
        /\ \A i \in 1..Len(HelperCalls) :
            /\ HelperCalls[i][1] = ConstructionSequence[i][1]
            /\ HelperCalls[i][2] = ConstructionSequence[i][2]
            /\ i > 1 => HelperCalls[i][3] = ConstructionSequence[i][3]
            /\ i < Len(HelperCalls) => HelperCalls[i] = ConstructionSequence[i]
        /\ \A i \in 1..Len(log) : ~IsBurstAttempt(log[i])
        /\ Cache = <<1, 0, 0, 400>>
        /\ result[1] # "return" => inst = "none"
        /\ result[1] = "return" =>
            /\ stack = <<>>
            /\ inst = "ready"
            /\ log = << ConstructionSequence[1],
                        ConstructionSequence[2], Sleep(20),
                        ConstructionSequence[3], Sleep(10),
                        ConstructionSequence[4], ConstructionSequence[5],
                        ConstructionSequence[6], Sleep(10) >>
            /\ regs[16] = 2
            /\ <<regs[19], regs[20]>> = <<137, 74>>
            /\ <<regs[21], regs[22]>> = <<0, 100>>

\* A construction completed on a sensor that powered up in deep sleep.
C20_Witness ==
    /\ Returned("__init__", "None")
    /\ entry.regs[16] = 0
    /\ Len(HelperCalls) = 6
    /\ inst = "ready"
    /\ regs[16] = 2

-----------------------------------------------------------------------------
\* The reference CRC-8: polynomial 0x31, initial value 0xFF, most significant
\* bit first, input and output not reflected, no final XOR, the register kept
\* to 8 bits at every shift.
ReferenceShift(crc) ==
    IF crc >= 128 THEN BitXor((2 * crc) % 256, 49) ELSE (2 * crc) % 256
ReferenceByte(crc, byte) ==
    LET x == BitXor(crc, byte) IN
    ReferenceShift(ReferenceShift(ReferenceShift(ReferenceShift(
    ReferenceShift(ReferenceShift(ReferenceShift(ReferenceShift(x))))))))
RECURSIVE ReferenceCrc8(_, _)
ReferenceCrc8(crc, bytes) ==
    IF bytes = <<>> THEN crc
    ELSE ReferenceCrc8(ReferenceByte(crc, Head(bytes)), Tail(bytes))
FirstSix(bytes) == SubSeq(bytes, 1, IF Len(bytes) < 6 THEN Len(bytes) ELSE 6)

(* C21: _calculate_crc8 returns a value in 0..255 that depends only on the *)
(* first six bytes of its argument and equals the reference CRC-8 of those *)
(* bytes, whose register is masked to 8 bits at every shift (the code      *)
(* masks once a byte); 0xBE 0xEF gives 0x92.                               *)
C21_Crc8IsReference ==
    fname = "crc8" =>
        /\ fvalue \in 0..255
        /\ fvalue = ReferenceCrc8(255, FirstSix(fargs))
        /\ fvalue = _calculate_crc8(FirstSix(fargs))
        /\ fargs = <<190, 239>> => fvalue = 146

\* Eight bytes handed in: the checksum is that of the first six.
C21_Witness ==
    /\ fname = "crc8"
    /\ fargs = <<255, 128, 1, 0, 255, 128, 78, 1>>
    /\ fvalue = ReferenceCrc8(255, <<255, 128, 1, 0, 255, 128>>)
    /\ fvalue # ReferenceCrc8(255, fargs)

-----------------------------------------------------------------------------
\* The 20-bit fields a frame carries, read off its bytes by arithmetic.
PackedHumidity(f) == f[2] * 4096 + f[3] * 16 + f[4] \div 16
PackedTemperature(f) == (f[4] % 16) * 65536 + f[5] * 256 + f[6]
\* The frame with bit b of byte i (counted from 1) inverted.
FlipBit(f, i, b) ==
    [f EXCEPT ![i] = IF (f[i] \div Pow2(b)) % 2 = 1 THEN f[i] - Pow2(b)
                     ELSE f[i] + Pow2(b)]

(* C22: the decoding returns the raw humidity held by bytes[1], bytes[2]   *)
(* and the high nibble of bytes[3] and the raw temperature held by the low *)
(* nibble of bytes[3], bytes[4] and bytes[5]; both lie in 0..1048575;      *)
(* inverting one bit of bytes 1..5 changes exactly one of the two values;  *)
(* and the status byte changes neither.                                    *)
C22_DecodeInvertsPacking ==
    fname = "decode" =>
        /\ fvalue = <<PackedHumidity(fargs), PackedTemperature(fargs)>>
        /\ fvalue[1] \in 0..1048575 /\ fvalue[2] \in 0..1048575
        /\ fargs = SensorFrame(fargs[1], fvalue[1], fvalue[2], fargs[7])
        /\ \A i \in 2..6, b \in 0..7 :
            LET g == FlipBit(fargs, i, b) IN
            (RawHumidity(g) # fvalue[1]) # (RawTemperature(g) # fvalue[2])
        /\ \A status \in 0..255 :
            LET g == [fargs EXCEPT ![1] = status] IN
            <<RawHumidity(g), RawTemperature(g)>> = fvalue

\* h = 0xABCDE and t = 0x55555 meet in bytes[3] = 0xE5.
C22_Witness ==
    /\ fname = "decode"
    /\ fargs = <<28, 171, 205, 229, 85, 85, 0>>
    /\ fvalue = <<703710, 349525>>

-----------------------------------------------------------------------------
\* The settle time the device needs after a mode write.
SettleMs(mode) == IF mode = 240 THEN 20 ELSE 10
IsSleepAtLeast(e, ms) == e[1] = "sleep_ms" /\ e[2] >= ms
IsStatusAttempt(e) == e[1] = "_read_register" /\ e[2] = _REG_DEVICE_STATUS

(* C23: in every ENS160 operation an acknowledged write of Reset to the    *)
(* mode register is followed by a wait of at least 20 ms, and one of Idle  *)
(* or Standard by a wait of at least 10 ms, before anything else goes over *)
(* the bus (the helper makes no transaction after the acknowledged one);   *)
(* and a status read that update() retries after a recovery comes at least *)
(* 200 ms after the end of the reset, whose last steps are the write of    *)
(* Standard and its settle wait.                                           *)
C23_SettleTimes ==
    /\ \A i \in 1..Len(log) :
        \A mode \in {_OPMODE_RESET, _OPMODE_IDLE, _OPMODE_STANDARD} :
            IsModeWrite(log[i], mode) => IsSleepAtLeast(Entry(log, i + 1), SettleMs(mode))
    /\ \A i \in 1..(Len(helper) - 1) :
        helper[i][1] = "sleep_ms" \/ ~helper[i][4]
    /\ call[1] = "update" =>
        \A i \in 2..Len(log) :
            IsStatusAttempt(log[i]) =>
                /\ IsSleepAtLeast(Entry(log, i - 1), 200)
                /\ IsSleepAtLeast(Entry(log, i - 2), 10)
                /\ IsModeWrite(Entry(log, i - 3), _OPMODE_STANDARD)

\* update() has recovered once: Reset, Idle and Standard were written and
\* acknowledged, each followed by its wait, and after 200 ms more the retried
\* status read was made.
C23_Witness ==
    /\ Returned("update", TRUE)
    /\ IsModeWrite(Entry(log, 3), _OPMODE_RESET) /\ Entry(log, 4) = Sleep(20)
    /\ IsModeWrite(Entry(log, 5), _OPMODE_IDLE) /\ Entry(log, 6) = Sleep(10)
    /\ IsModeWrite(Entry(log, 9), _OPMODE_STANDARD) /\ Entry(log, 10) = Sleep(10)
    /\ Entry(log, 11) = Sleep(200)
    /\ IsStatusRead(Entry(log, 12))

-----------------------------------------------------------------------------
(* C24: for every retry budget, 0 included, read_temperature_humidity ends *)
(* either by returning the measurement decoded from a delivered frame with *)
(* a valid CRC, or by raising an error; it never returns anything else.    *)
C24_MeasurementOrError ==
    AhtEnded("read_temperature_humidity") =>
        \/ /\ aresult[1] = "return"
           /\ IsFrame(Last(alog))
           /\ ~CrcMismatch(Last(alog)[3])
           /\ aresult[2] = Measurement(Last(alog)[3])
        \/ aresult[1] = "raise"

-----------------------------------------------------------------------------
\* The four bytes of the temp-in and rh-in registers.
CompRegs(r) == <<r[_REG_TEMP_IN], r[_REG_TEMP_IN + 1], r[_REG_RH_IN], r[_REG_RH_IN + 1]>>
IsCompWriteAttempt(e, reg) == e[1] = "_write_register_16" /\ e[2] = reg
IsCompWrite(e, reg) == IsCompWriteAttempt(e, reg) /\ e[4]
IsErrorBurst(e) == IsBurst(e) /\ ValidityOf(e) = 3
Some(l, P(_)) == SelectSeq(l, P) # <<>>
IsTempInWrite(e) == IsCompWrite(e, _REG_TEMP_IN)
IsRhInWrite(e) == IsCompWrite(e, _REG_RH_IN)

(* C25 as stated: when update() returns, the temp-in and rh-in registers   *)
(* hold what they held when it was called, on every path.                  *)
C25_UpdateKeepsCompensation ==
    (Ended("update") /\ result[1] = "return") =>
        CompRegs(regs) = CompRegs(entry.regs)

(* C25, amended: update() writes the compensation registers only in the    *)
(* reset of a recovery, after a burst read that decoded Error, and then     *)
(* with the encoding of the default 25 C / 50 %RH (0x4A89, 0x6400, low byte *)
(* first): each register holds the default once its write is acknowledged  *)
(* and what the caller left in it until then; an update() that returns     *)
(* after a recovery leaves both at the default, and one that made no        *)
(* recovery leaves both untouched.                                          *)
C25_RecoveryRestoresDefault ==
    call[1] = "update" =>
        /\ \A i \in 1..Len(log) :
            /\ IsCompWriteAttempt(log[i], _REG_TEMP_IN) => log[i][3] = <<137, 74>>
            /\ IsCompWriteAttempt(log[i], _REG_RH_IN) => log[i][3] = <<0, 100>>
            /\ (IsCompWriteAttempt(log[i], _REG_TEMP_IN)
                    \/ IsCompWriteAttempt(log[i], _REG_RH_IN)) =>
                Some(SubSeq(log, 1, i - 1), IsErrorBurst)
        /\ <<regs[_REG_TEMP_IN], regs[_REG_TEMP_IN + 1]>> =
                IF Some(log, IsTempInWrite) THEN <<137, 74>>
                ELSE <<entry.regs[_REG_TEMP_IN], entry.regs[_REG_TEMP_IN + 1]>>
        /\ <<regs[_REG_RH_IN], regs[_REG_RH_IN + 1]>> =
                IF Some(log, IsRhInWrite) THEN <<0, 100>>
                ELSE <<entry.regs[_REG_RH_IN], entry.regs[_REG_RH_IN + 1]>>
        /\ (Ended("update") /\ result[1] = "return") =>
                CompRegs(regs) = IF Some(log, IsErrorBurst) THEN <<137, 74, 0, 100>>
                                 ELSE CompRegs(entry.regs)

\* update() called with the encoding of (21.5 C, 40.3 %RH) in the registers
\* has recovered from an Error reading and returned true.
C25_Witness ==
    /\ Returned("update", TRUE)
    /\ CompRegs(entry.regs) = <<169, 73, 153, 80>>
    /\ Some(log, IsErrorBurst)
    /\ CompRegs(regs) = <<137, 74, 0, 100>>

-----------------------------------------------------------------------------
\* The steps of update() that store a reading: a delivered burst read, and
\* the end of a reset(), reached when its write of Standard is acknowledged.
IsCacheStore(e) == IsBurst(e) \/ IsModeWrite(e, _OPMODE_STANDARD)
CacheStores == SelectSeq(log, IsCacheStore)
Stored(e) ==
    IF IsBurst(e)
    THEN <<(e[3][1] \div 4) % 4, e[3][2] % 8, e[3][3] + 256 * e[3][4], e[3][5] + 256 * e[3][6]>>
    ELSE <<1, 0, 0, 400>>
IsFailedRead(e) == e[1] \in {"_read_register", "_read_registers"} /\ ~e[4]
IsFailedWrite(e) == IsWriteAttempt(e) /\ ~e[4]

(* C26 as stated: an update() that ends with a transport failure leaves    *)
(* the cached reading as it was before the call.                           *)
C26_FailureKeepsCache ==
    Raised("update", "ENS160CommunicationError") => Cache = entry.cache

(* C26, amended: all through update() the cache holds one whole reading:   *)
(* the one of the latest delivered burst read or completed reset() of this *)
(* call, or the one from before the call when there is none yet.  So an    *)
(* update() that ends with a transport failure leaves the cache as before  *)
(* the call when its first status read or first burst read failed, leaves  *)
(* the Error reading it decoded when a write of the recovery's reset       *)
(* failed, and leaves the default reading of reset() when the retried      *)
(* status read or burst read failed.                                       *)
C26_CacheHoldsLastStore ==
    call[1] = "update" =>
        /\ Cache = IF CacheStores = <<>> THEN entry.cache ELSE Stored(Last(CacheStores))
        /\ Raised("update", "ENS160CommunicationError") =>
            \/ /\ CacheStores = <<>>
               /\ Cache = entry.cache
               /\ IsFailedRead(Last(log))
               /\ Len(log) <= 2
            \/ /\ IsErrorBurst(Last(CacheStores))
               /\ Cache[1] = 3
               /\ IsFailedWrite(Last(log))
            \/ /\ IsModeWrite(Last(CacheStores), _OPMODE_STANDARD)
               /\ Cache = <<1, 0, 0, 400>>
               /\ IsFailedRead(Last(log))
               /\ Len(log) > 2

\* update() called with a Normal reading cached decoded Error and ended with
\* the failure of the recovery's write of Idle: the Error reading is cached.
C26_Witness ==
    /\ Raised("update", "ENS160CommunicationError")
    /\ entry.cache[1] = 0
    /\ IsErrorBurst(Entry(log, 2))
    /\ IsModeWrite(Entry(log, 3), _OPMODE_RESET)
    /\ IsFailedWrite(Last(log)) /\ IsModeWriteAttempt(Last(log), _OPMODE_IDLE)
    /\ Cache = Stored(Entry(log, 2))
    /\ Cache # entry.cache

====
